---- MODULE Spec2Model ----
(***************************************************************************)
(* SiteAble: the crawl scheduler (crawler/crawler_scanner.py) and the      *)
(* request rate limiters (crawler/rate_limiter.py) as state machines.      *)
(*                                                                         *)
(* A URL string is modelled by what urlparse makes of it: a record         *)
(* [netloc, path, frag], the path a sequence of characters.  An href is a  *)
(* reference [netloc, path, frag, bad]: netloc "" is a relative reference, *)
(* bad marks text on which urljoin raises ValueError (e.g. "http://[").    *)
(***************************************************************************)
EXTENDS Integers, Sequences, FiniteSets, TLC

VARIABLES
    \* ---- scan_site_enhanced: arguments and what Init fetched
    max_pages,      \* argument max_pages
    concurrency,    \* argument concurrency: number of workers and semaphore size
    rate_limited,   \* rate_limit > 0: a RateLimiter gates every fetch
    delayed,        \* max(crawl_delay, delay) > 0
    disallows,      \* Disallow prefixes of the chosen robots group
    sitemap_urls,   \* <loc> entries of sitemap.xml
    pages,          \* the site: fetched URL -> [links, issues]
    \* ---- scan_site_enhanced: shared state of the session
    seen,           \* set of URL
    to_visit,       \* asyncio.Queue, FIFO
    issues_map,     \* URL -> issue list
    total_found,
    pc,             \* each worker's position
    cur,            \* each worker's local url while it is live (NoUrl otherwise)
    session,        \* "running", "returned" (gather returned), "raised"
    \* ---- observers (history, not read by the program)
    fetches,        \* URL -> number of _fetch_text calls issued
    writes,         \* URL -> number of assignments issues_map[url] = ...
    acquired,       \* URLs for which rate_limiter.acquire() was awaited
    queued,         \* every URL ever put on to_visit
    fetch_failed,   \* some fetch returned None
    on_progress,    \* observer: URL -> number of calls of the callback with it
    \* ---- RateLimiter (rate_limiter.py)
    requests_per_second,  \* a rational [n, d]
    min_interval,         \* a rational, in seconds
    last_request_time,    \* _last_request_time, in seconds of the monotonic clock
    lock,                 \* _lock: "None" (not created yet), "unlocked", "locked"
    lock_waiters,         \* the tasks queued on _lock, FIFO
    now,                  \* time.monotonic()
    task,                 \* each calling task: [pc, current_time, sleep_time]
    completions,          \* observer: the clock at each return of acquire()
    \* ---- AdaptiveRateLimiter
    initial_rps,
    min_rps,
    max_rps,
    success_count,
    error_count,
    slow_response_count,
    \* ---- AnalyzerRegistry (core/analyzer.py)
    analyzers,      \* _analyzers: the dict, as its entries in insertion order
    reg_log,        \* observer: the register/unregister calls made so far
    analysis,       \* observer: the last analyze_all call and its outcome
    \* ---- _fetch_robots (crawler/crawler_scanner.py)
    robots_text,    \* what the fetch of robots.txt gave: [ok, lines]
    ua,             \* argument ua
    robots_pc,      \* "fetching", "returned"
    groups,         \* local groups once parsed
    robots_result,  \* the returned (disallow_paths, crawl_delay)
    \* ---- _fetch_text (crawler/crawler_scanner.py)
    fetch_pc,       \* "attempt" (request outstanding), "backoff", "returned", "raised"
    attempt_number, \* tenacity's attempt counter
    outcomes,       \* observer: the outcome of each HTTP attempt so far
    fetch_result,   \* what _fetch_text returned: "text" or "None"
    \* ---- core/severity.py: enrich_issue and sort_by_severity
    sev_pc,         \* "enrich" / "sort" (called), "enriched" / "sorted" (returned)
    issue,          \* the dict passed to enrich_issue, as it is now
    enriched,       \* the dict enrich_issue returned
    issues,         \* the list passed to sort_by_severity, as it is now
    sorted_issues,  \* the list sort_by_severity returned
    given,          \* observer: the argument as it was when the call was made
    \* ---- ARIAAnalyzer (analyzers/plugins.py)
    aria_pc,        \* "test" / "analyze" (called), "tested" / "analyzed" (returned)
    element,        \* the element passed to _is_focusable
    focusable,      \* what _is_focusable returned
    document,       \* the parsed page passed through analyze
    aria_issues     \* the issues analyze returned

vars == <<max_pages, concurrency, rate_limited, delayed, disallows, sitemap_urls,
          pages, seen, to_visit, issues_map, total_found, pc, cur, session,
          fetches, writes, acquired, queued, fetch_failed, on_progress,
          requests_per_second, min_interval, last_request_time, lock, lock_waiters,
          now, task, completions,
          initial_rps, min_rps, max_rps, success_count, error_count,
          slow_response_count,
          analyzers, reg_log, analysis,
          robots_text, ua, robots_pc, groups, robots_result,
          fetch_pc, attempt_number, outcomes, fetch_result,
          sev_pc, issue, enriched, issues, sorted_issues, given,
          aria_pc, element, focusable, document, aria_issues>>

rateVars == <<requests_per_second, min_interval>>

limVars == <<last_request_time, lock, lock_waiters, now, task, completions>>

boundVars == <<initial_rps, min_rps, max_rps>>

adaptVars == <<boundVars, success_count, error_count, slow_response_count>>

regVars == <<analyzers, reg_log, analysis>>

\* the state of the library parts a crawl or limiter step does not touch
robotsVars == <<robots_text, ua, robots_pc, groups, robots_result>>

fetchVars == <<fetch_pc, attempt_number, outcomes, fetch_result>>

sevVars == <<sev_pc, issue, enriched, issues, sorted_issues, given>>

ariaVars == <<aria_pc, element, focusable, document, aria_issues>>

libVars == <<regVars, robotsVars, fetchVars, sevVars, ariaVars>>

crawlVars == <<max_pages, concurrency, rate_limited, delayed, disallows,
               sitemap_urls, pages, seen, to_visit, issues_map, total_found,
               pc, cur, session, fetches, writes, acquired, queued, fetch_failed,
               on_progress>>

\* everything but the registry
nonRegVars == <<crawlVars, rateVars, limVars, adaptVars, robotsVars, fetchVars,
                sevVars, ariaVars>>

\* everything but _fetch_robots
nonRobotsVars == <<crawlVars, rateVars, limVars, adaptVars, regVars, fetchVars,
                   sevVars, ariaVars>>

\* everything but _fetch_text
nonFetchVars == <<crawlVars, rateVars, limVars, adaptVars, regVars, robotsVars,
                  sevVars, ariaVars>>

\* everything but the severity functions
nonSevVars == <<crawlVars, rateVars, limVars, adaptVars, regVars, robotsVars,
                fetchVars, ariaVars>>

\* everything but the aria analyzer
nonAriaVars == <<crawlVars, rateVars, limVars, adaptVars, regVars, robotsVars,
                 fetchVars, sevVars>>

(***************************************************************************)
(* Bounds of the model.                                                    *)
(***************************************************************************)
MaxConcurrency == 2
MaxPages == 4

(***************************************************************************)
(* URLs and the mock site.                                                 *)
(***************************************************************************)
Url(n, p, f) == [netloc |-> n, path |-> p, frag |-> f]
Href(n, p, f) == [netloc |-> n, path |-> p, frag |-> f, bad |-> FALSE]
BadHref == [netloc |-> "[", path |-> <<>>, frag |-> "", bad |-> TRUE]

Root == Url("h", <<"/">>, "")
PageA == Url("h", <<"/", "a">>, "")
PageP == Url("h", <<"/", "p", "x">>, "")
PageC == Url("h", <<"/", "c">>, "")
Ext == Url("x", <<"/">>, "")

start_url == Root

\* index links /a#s, an external page and /px; /a links back to the index and
\* to its own #top; /px is the only page that links to /c.
SiteGood ==
    (Root :> [links |-> <<Href("", <<"/", "a">>, "s"), Href("x", <<"/">>, ""),
                          Href("", <<"/", "p", "x">>, "")>>,
              issues |-> <<"IMG_MISSING_ALT">>])
    @@ (PageA :> [links |-> <<Href("h", <<"/">>, ""), Href("", <<>>, "top")>>,
                  issues |-> <<"LOW_CONTRAST">>])
    @@ (PageP :> [links |-> <<Href("", <<"/", "c">>, "")>>,
                  issues |-> <<"MISSING_LANG">>])
    @@ (PageC :> [links |-> <<>>, issues |-> <<"MISSING_TITLE">>])

\* the same site with a malformed href on the index, after its first link
SiteBadHref ==
    [SiteGood EXCEPT ![Root].links =
        <<Href("", <<"/", "a">>, "s"), BadHref, Href("x", <<"/">>, ""),
          Href("", <<"/", "p", "x">>, "")>>]

Sites == {SiteGood, SiteBadHref}
\* the last sitemap lists an external page and /c with a fragment, as
\* <loc>http://h/c#s</loc>
Sitemaps == {<<>>, <<Root, PageA>>, <<Ext, Url("h", <<"/", "c">>, "s")>>}
DisallowSets == {<<>>, << <<>>, <<"/", "p">> >>, << <<"/">> >>}

(***************************************************************************)
(* Pure helpers of crawler_scanner.py.                                     *)
(***************************************************************************)
\* urlparse(url).netloc
NetlocOf(url) == url.netloc

\* urlparse(url).path or "/"
PathOf(url) == IF url.path = <<>> THEN <<"/">> ELSE url.path

start_netloc == NetlocOf(start_url)

\* str.startswith
StartsWith(s, prefix) ==
    /\ Len(prefix) <= Len(s)
    /\ SubSeq(s, 1, Len(prefix)) = prefix

same_domain_any(netloc, url) == TRUE

same_domain(netloc, url) == NetlocOf(url) = netloc

is_blocked_never(path, dis) == FALSE

is_blocked(path, dis) ==
    IF dis = <<>> THEN FALSE
    ELSE \E i \in 1..Len(dis) : dis[i] # <<>> /\ StartsWith(path, dis[i])

\* urljoin(base, href) raises ValueError on a malformed authority
UrljoinRaises(base, href) == href.bad

\* urljoin(base, href) for absolute URLs, rooted paths and bare fragments
urljoin(base, href) ==
    IF href.netloc # "" THEN Url(href.netloc, href.path, href.frag)
    ELSE IF href.path # <<>> THEN Url(base.netloc, href.path, href.frag)
    ELSE Url(base.netloc, base.path, href.frag)

\* full.split("#")[0]
StripFragment(url) == [url EXCEPT !.frag = ""]

InQueue(url, q) == \E i \in 1..Len(q) : q[i] = url

PutNowhere(f, k, v) == f

Put(f, k, v) == [x \in (DOMAIN f) \cup {k} |-> IF x = k THEN v ELSE f[x]]

Count(f, k) == IF k \in DOMAIN f THEN f[k] ELSE 0

Inc(f, k) == Put(f, k, Count(f, k) + 1)

NoUrl == Url("", <<>>, "")

\* lines 270-277: the start URL, then every same-domain sitemap URL not in seen
RECURSIVE SeedQueue(_, _, _)
SeedQueue(urls, q, seenNow) ==
    IF urls = <<>> THEN q
    ELSE LET s == Head(urls) IN
         IF same_domain(start_netloc, s) /\ s \notin seenNow
         THEN SeedQueue(Tail(urls), Append(q, s), seenNow)
         ELSE SeedQueue(Tail(urls), q, seenNow)

\* lines 344-356: the loop over the page's anchors, in document order
RECURSIVE DiscoverLinks(_, _, _, _, _)
DiscoverLinks(base, hrefs, q, tf, seenNow) ==
    IF hrefs = <<>> THEN [queue |-> q, total |-> tf, raised |-> FALSE]
    ELSE LET href == Head(hrefs) IN
         IF UrljoinRaises(base, href)
         THEN [queue |-> q, total |-> tf, raised |-> TRUE]
         ELSE LET full == StripFragment(urljoin(base, href)) IN
              IF ~same_domain(start_netloc, full)
              THEN DiscoverLinks(base, Tail(hrefs), q, tf, seenNow)
              ELSE IF full \notin seenNow /\ ~InQueue(full, q)
              THEN DiscoverLinks(base, Tail(hrefs), Append(q, full), tf + 1, seenNow)
              ELSE DiscoverLinks(base, Tail(hrefs), q, tf, seenNow)

\* no call of on_progress made yet
NoProgress == [u \in {} |-> 0]

\* lines 329-333: on_progress(len(seen), total_found, url) is called once more
\* with this url; whether it returns or raises, the worker goes on (the
\* except of line 332)
Progress(p, url) == Inc(p, url)

Workers == 1..concurrency

\* line 284, then line 286: the loop condition, evaluated with no suspension
\* after the step that precedes it; a worker that passes it awaits
\* wait_for(to_visit.get()), which always suspends
LoopCheck(seenNow) == IF Cardinality(seenNow) < max_pages THEN "get" ELSE "done"

\* permits left in sem = asyncio.Semaphore(concurrency)
SemValue ==
    concurrency - Cardinality({w \in Workers : pc[w] \in {"acquire", "fetch", "sleep"}})

(***************************************************************************)
(* scan_site_enhanced: the state when the workers are started.             *)
(***************************************************************************)
CrawlInit ==
    /\ max_pages \in {1, 2, MaxPages}
    /\ concurrency \in 1..MaxConcurrency
    /\ rate_limited \in BOOLEAN
    /\ delayed \in BOOLEAN
    /\ disallows \in DisallowSets
    /\ sitemap_urls \in Sitemaps
    /\ pages \in Sites
    /\ seen = {}
    /\ to_visit = SeedQueue(sitemap_urls, <<start_url>>, {})
    /\ issues_map = [u \in {} |-> <<>>]
    /\ total_found = Len(to_visit)
    /\ pc = [w \in 1..concurrency |-> LoopCheck({})]
    /\ cur = [w \in 1..concurrency |-> NoUrl]
    /\ session = "running"
    /\ fetches = [u \in {} |-> 0]
    /\ writes = [u \in {} |-> 0]
    /\ acquired = {}
    /\ queued = {to_visit[i] : i \in 1..Len(to_visit)}
    /\ fetch_failed = FALSE
    /\ on_progress = NoProgress

cfgVars == <<max_pages, concurrency, rate_limited, delayed, disallows, sitemap_urls, pages>>

\* line 286: the queue's get() hands the worker the head of the queue; the
\* worker itself resumes in a later step of the event loop
GetReturns(w) ==
    /\ pc[w] = "get"
    /\ to_visit # <<>>
    /\ cur' = [cur EXCEPT ![w] = Head(to_visit)]
    /\ to_visit' = Tail(to_visit)
    /\ pc' = [pc EXCEPT ![w] = "got"]
    /\ UNCHANGED <<cfgVars, seen, issues_map, total_found, session,
                   fetches, writes, acquired, queued, fetch_failed,
                   on_progress, rateVars, limVars, adaptVars, libVars>>

\* lines 286-288: the queue stayed empty for the timeout
DequeueTimeout(w) ==
    /\ pc[w] = "get"
    /\ to_visit = <<>>
    /\ pc' = [pc EXCEPT ![w] = "done"]
    /\ UNCHANGED <<cfgVars, seen, to_visit, issues_map, total_found, cur, session,
                   fetches, writes, acquired, queued, fetch_failed,
                   on_progress, rateVars, limVars, adaptVars, libVars>>

\* lines 290-309: the worker resumes with its URL: dedup check, robots check,
\* semaphore, and on to the first suspension of the fetch path (acquire(), when
\* it has to wait for the lock or sleep, else the fetch itself)
Dequeued(w) ==
    /\ pc[w] = "got"
    /\ LET url == cur[w] IN
       IF url \in seen
       THEN /\ pc' = [pc EXCEPT ![w] = LoopCheck(seen)]
            /\ cur' = [cur EXCEPT ![w] = NoUrl]
            /\ UNCHANGED <<seen, issues_map, fetches, writes, acquired>>
       ELSE IF is_blocked(PathOf(url), disallows)
       THEN /\ seen' = seen \cup {url}
            /\ issues_map' = Put(issues_map, url, <<>>)
            /\ writes' = Inc(writes, url)
            /\ pc' = [pc EXCEPT ![w] = LoopCheck(seen')]
            /\ cur' = [cur EXCEPT ![w] = NoUrl]
            /\ UNCHANGED <<fetches, acquired>>
       ELSE /\ SemValue > 0
            /\ \E waits \in {FALSE, rate_limited} :
                  IF waits
                  THEN /\ pc' = [pc EXCEPT ![w] = "acquire"]
                       /\ UNCHANGED <<fetches, acquired>>
                  ELSE /\ pc' = [pc EXCEPT ![w] = "fetch"]
                       /\ fetches' = Inc(fetches, url)
                       /\ acquired' = IF rate_limited THEN acquired \cup {url}
                                      ELSE acquired
            /\ UNCHANGED <<seen, issues_map, writes, cur>>
    /\ UNCHANGED <<cfgVars, to_visit, total_found, session, queued, fetch_failed,
                   on_progress, rateVars, limVars, adaptVars, libVars>>

\* lines 305-309: rate_limiter.acquire() returns, the fetch is issued
RateLimiterAcquired(w) ==
    /\ pc[w] = "acquire"
    /\ acquired' = acquired \cup {cur[w]}
    /\ fetches' = Inc(fetches, cur[w])
    /\ pc' = [pc EXCEPT ![w] = "fetch"]
    /\ UNCHANGED <<cfgVars, seen, to_visit, issues_map, total_found, cur, session,
                   writes, queued, fetch_failed,
                   on_progress, rateVars, limVars, adaptVars, libVars>>

\* lines 309-317: _fetch_text returned None (failure after retries, 4xx, 404)
FetchFails(w) ==
    /\ pc[w] = "fetch"
    /\ seen' = seen \cup {cur[w]}
    /\ issues_map' = Put(issues_map, cur[w], <<>>)
    /\ writes' = Inc(writes, cur[w])
    /\ fetch_failed' = TRUE
    /\ pc' = [pc EXCEPT ![w] = LoopCheck(seen')]
    /\ cur' = [cur EXCEPT ![w] = NoUrl]
    /\ UNCHANGED <<cfgVars, to_visit, total_found, session, fetches, acquired,
                   queued,
                   on_progress, rateVars, limVars, adaptVars, libVars>>

\* lines 309-363: _fetch_text returned the page; analyse, discover links
FetchSucceeds(w) ==
    /\ pc[w] = "fetch"
    /\ StripFragment(cur[w]) \in DOMAIN pages
    /\ LET url == cur[w]
           text == pages[StripFragment(url)]
           seen1 == seen \cup {url}
           d == DiscoverLinks(url, text.links, to_visit, total_found, seen1)
       IN
       /\ seen' = seen1
       /\ \E analysed \in BOOLEAN :
             issues_map' = Put(issues_map, url, IF analysed THEN text.issues ELSE <<>>)
       /\ writes' = Inc(writes, url)
       /\ on_progress' = Progress(on_progress, url)
       /\ to_visit' = d.queue
       /\ total_found' = d.total
       /\ queued' = queued \cup {d.queue[i] : i \in 1..Len(d.queue)}
       /\ pc' = [pc EXCEPT ![w] = IF d.raised THEN "raised"
                                  ELSE IF delayed THEN "sleep" ELSE LoopCheck(seen1)]
    /\ cur' = [cur EXCEPT ![w] = NoUrl]
    /\ UNCHANGED <<cfgVars, session, fetches, acquired, fetch_failed,
                   rateVars, limVars, adaptVars, libVars>>

\* lines 359-363 and 284: asyncio.sleep(effective_delay) returns
SleepReturns(w) ==
    /\ pc[w] = "sleep"
    /\ pc' = [pc EXCEPT ![w] = LoopCheck(seen)]
    /\ UNCHANGED <<cfgVars, seen, to_visit, issues_map, total_found, cur, session,
                   fetches, writes, acquired, queued, fetch_failed,
                   on_progress, rateVars, limVars, adaptVars, libVars>>

\* line 368: every worker task finished, gather returns
GatherReturns ==
    /\ session = "running"
    /\ \A w \in Workers : pc[w] = "done"
    /\ session' = "returned"
    /\ UNCHANGED <<cfgVars, seen, to_visit, issues_map, total_found, pc, cur,
                   fetches, writes, acquired, queued, fetch_failed,
                   on_progress, rateVars, limVars, adaptVars, libVars>>

\* line 368: a worker task ended with an exception, gather re-raises it
GatherRaises ==
    /\ session = "running"
    /\ \E w \in Workers : pc[w] = "raised"
    /\ session' = "raised"
    /\ UNCHANGED <<cfgVars, seen, to_visit, issues_map, total_found, pc, cur,
                   fetches, writes, acquired, queued, fetch_failed,
                   on_progress, rateVars, limVars, adaptVars, libVars>>

(***************************************************************************)
(* Rational arithmetic for the limiter's floats: [n, d] with d > 0, kept   *)
(* in lowest terms.                                                        *)
(***************************************************************************)
RECURSIVE GCD(_, _)
GCD(a, b) == IF b = 0 THEN a ELSE GCD(b, a % b)

Rat(n, d) == LET g == GCD(n, d) IN [n |-> n \div g, d |-> d \div g]

Zero == [n |-> 0, d |-> 1]

\* a.n * b.d - b.n * a.d, divided by the common factors of the numerators and
\* of the denominators: its sign orders a and b
RatDiff(a, b) ==
    LET gn == IF a.n = 0 /\ b.n = 0 THEN 1 ELSE GCD(a.n, b.n)
        gd == GCD(a.d, b.d)
    IN  (a.n \div gn) * (b.d \div gd) - (b.n \div gn) * (a.d \div gd)

RatLess(a, b) == RatDiff(a, b) < 0

RatLeq(a, b) == RatDiff(a, b) <= 0

RatMul(a, b) == Rat(a.n * b.n, a.d * b.d)

RatMax(a, b) == IF RatLess(a, b) THEN b ELSE a

RatMin(a, b) == IF RatLess(b, a) THEN b ELSE a

\* 1.0 / requests_per_second if requests_per_second > 0 else 0
IntervalOf(rps) == IF rps.n > 0 THEN [n |-> rps.d, d |-> rps.n] ELSE Zero

(***************************************************************************)
(* RateLimiter.acquire, called by concurrent tasks of one event loop.      *)
(* Time is in whole seconds of the monotonic clock.                        *)
(***************************************************************************)
MaxTasks == 2
MaxAcquires == 4
MaxTime == 6

Tasks == 1..MaxTasks

RpsChoices == {Zero, Rat(1, 1), Rat(1, 2), Rat(1, 3)}

IdleTask == [pc |-> "idle", current_time |-> 0, sleep_time |-> Zero]

Calls == Len(completions) + Cardinality({t \in Tasks : task[t].pc # "idle"})

\* asyncio.Lock.acquire takes the lock without waiting only when it is
\* unlocked and no task is queued on it
LockIsFreeAlways(l, waiters) == TRUE

LockIsFree(l, waiters) == l # "locked" /\ waiters = <<>>

\* line 47: the timestamp stored when the wait is over
StampStale(current_time, clock) == current_time

Stamp(current_time, clock) == clock

\* lines 40-47 up to the sleep: task t holds the lock
EnterCritical(t, waiters1) ==
    LET current_time == now
        time_since_last == current_time - last_request_time
    IN
    IF time_since_last * min_interval.d < min_interval.n
    THEN \* sleep_time = min_interval - time_since_last
         /\ task' = [task EXCEPT ![t] =
                [pc |-> "sleeping", current_time |-> current_time,
                 sleep_time |-> Rat(min_interval.n - time_since_last * min_interval.d,
                                    min_interval.d)]]
         /\ lock' = "locked"
         /\ lock_waiters' = waiters1
         /\ UNCHANGED <<last_request_time, completions>>
    ELSE /\ last_request_time' = Stamp(current_time, now)
         /\ task' = [task EXCEPT ![t] = IdleTask]
         /\ lock' = "unlocked"
         /\ lock_waiters' = waiters1
         /\ completions' = Append(completions, now)

\* lines 32-39: the call, up to the first suspension
AcquireCall(t) ==
    /\ task[t].pc = "idle"
    /\ Calls < MaxAcquires
    /\ IF requests_per_second.n <= 0
       THEN /\ completions' = Append(completions, now)
            /\ UNCHANGED <<last_request_time, lock, lock_waiters, task>>
       ELSE IF LockIsFree(lock, lock_waiters)
       THEN EnterCritical(t, lock_waiters)
       ELSE /\ lock' = IF lock = "None" THEN "unlocked" ELSE lock
            /\ lock_waiters' = Append(lock_waiters, t)
            /\ task' = [task EXCEPT ![t].pc = "waiting"]
            /\ UNCHANGED <<last_request_time, completions>>
    /\ UNCHANGED <<crawlVars, rateVars, now, adaptVars, libVars>>

\* line 39: the lock was released and t is the first task queued on it
LockGranted(t) ==
    /\ task[t].pc = "waiting"
    /\ lock = "unlocked"
    /\ lock_waiters # <<>>
    /\ Head(lock_waiters) = t
    /\ EnterCritical(t, Tail(lock_waiters))
    /\ UNCHANGED <<crawlVars, rateVars, now, adaptVars, libVars>>

\* lines 45-47: asyncio.sleep(sleep_time) is over; stamp, release, return
AcquireSleepReturns(t) ==
    /\ task[t].pc = "sleeping"
    /\ (now - task[t].current_time) * task[t].sleep_time.d >= task[t].sleep_time.n
    /\ last_request_time' = Stamp(task[t].current_time, now)
    /\ task' = [task EXCEPT ![t] = IdleTask]
    /\ lock' = "unlocked"
    /\ completions' = Append(completions, now)
    /\ UNCHANGED <<crawlVars, rateVars, lock_waiters, now, adaptVars, libVars>>

\* the monotonic clock advances
Tick ==
    /\ now < MaxTime
    /\ now' = now + 1
    /\ UNCHANGED <<crawlVars, rateVars, last_request_time, lock, lock_waiters, task,
                   completions, adaptVars, libVars>>

\* lines 15-24: RateLimiter.__init__
RateLimiterNew(rps) ==
    /\ requests_per_second = rps
    /\ min_interval = IntervalOf(rps)
    /\ last_request_time = 0
    /\ lock = "None"
    /\ lock_waiters = <<>>

(***************************************************************************)
(* AdaptiveRateLimiter.                                                    *)
(***************************************************************************)
MaxRecords == 11

slow_threshold == 5

InitialRpsChoices == {Rat(1, 2), Rat(2, 1), Rat(5, 1), Rat(6, 1)}
MinRpsChoices == {Rat(1, 1), Rat(2, 1)}
MaxRpsChoices == {Rat(5, 1), Rat(10, 1)}
ResponseTimes == {1, 5, 6}

\* lines 61-81: AdaptiveRateLimiter.__init__
AdaptiveNew(initial, lo, hi) ==
    /\ RateLimiterNew(initial)
    /\ initial_rps = initial
    /\ min_rps = lo
    /\ max_rps = hi
    /\ success_count = 0
    /\ error_count = 0
    /\ slow_response_count = 0

DecreasedRateNoFloor(rps) == RatMul(rps, Rat(8, 10))

\* lines 103-107: _decrease_rate
DecreasedRate(rps) == RatMax(RatMul(rps, Rat(8, 10)), min_rps)

IncreasedRateNoCap(rps) == RatMul(rps, Rat(11, 10))

\* lines 109-113: _increase_rate
IncreasedRate(rps) == RatMin(RatMul(rps, Rat(11, 10)), max_rps)

SetRate(rps) ==
    /\ requests_per_second' = rps
    /\ min_interval' = IntervalOf(rps)

\* lines 83-96: record_success(response_time)
RecordSuccess(response_time) ==
    /\ success_count + error_count < MaxRecords
    /\ success_count' = success_count + 1
    /\ IF response_time > slow_threshold
       THEN /\ slow_response_count' = slow_response_count + 1
            /\ SetRate(DecreasedRate(requests_per_second))
       ELSE IF success_count' % 10 = 0
       THEN /\ SetRate(IncreasedRate(requests_per_second))
            /\ UNCHANGED slow_response_count
       ELSE UNCHANGED <<rateVars, slow_response_count>>
    /\ UNCHANGED <<crawlVars, limVars, boundVars, error_count, libVars>>

\* lines 98-101: record_error()
RecordError ==
    /\ success_count + error_count < MaxRecords
    /\ error_count' = error_count + 1
    /\ SetRate(DecreasedRate(requests_per_second))
    /\ UNCHANGED <<crawlVars, limVars, boundVars, success_count,
                   slow_response_count, libVars>>

(***************************************************************************)
(* AnalyzerRegistry (core/analyzer.py).  The dict _analyzers is the        *)
(* sequence of its entries [name, analyzer] in insertion order: setting an *)
(* existing key keeps the key's position, deleting a key removes the       *)
(* entry, a new key goes to the end.  An analyzer is an object [id, name]; *)
(* what analyze(html) does is given by Outcome.                            *)
(***************************************************************************)
MaxOps == 4

AnalyzerNames == {"alt", "lang"}

\* analyzers 1 and 2 carry the same name
AnalyzerObjects ==
    { [id |-> 1, name |-> "alt"], [id |-> 2, name |-> "alt"],
      [id |-> 3, name |-> "lang"] }

Htmls == {"page", "malformed"}

\* exclude arguments; None stands for the default
Excludes == {"None", <<>>, <<"alt">>, <<"lang", "video">>}

\* analyzer.analyze(html): the issue list returned, or the exception raised
\* ("" when it returns); every exception an analyzer raises on bad markup
\* is an Exception
Outcome(a, html) ==
    CASE a.id = 1 -> IF html = "page"
                     THEN [raises |-> "", issues |-> << "IMG_MISSING_ALT" >>]
                     ELSE [raises |-> "ValueError", issues |-> <<>>]
      [] a.id = 2 -> IF html = "page"
                     THEN [raises |-> "",
                           issues |-> << "LINK_IMG_MISSING_ALT", "LINK_NO_TEXT" >>]
                     ELSE [raises |-> "", issues |-> << "LINK_NO_TEXT" >>]
      [] OTHER    -> IF html = "page"
                     THEN [raises |-> "", issues |-> << "MISSING_LANG" >>]
                     ELSE [raises |-> "AttributeError", issues |-> <<>>]

ExceptValueError(exc) == exc = "ValueError"

\* line 58: except Exception
ExceptException(exc) == exc \in {"ValueError", "AttributeError"}

\* Python's None where an analyzer is expected
None == [id |-> 0, name |-> "None"]

\* the index of key name in the dict, 0 if it is not a key
KeyIndex(entries, name) ==
    IF \E i \in 1..Len(entries) : entries[i].name = name
    THEN CHOOSE i \in 1..Len(entries) : entries[i].name = name
    ELSE 0

DictSetMoveToEnd(entries, name, value) ==
    Append(SelectSeq(entries, LAMBDA e : e.name # name),
           [name |-> name, analyzer |-> value])

DictSetDefault(entries, name, value) ==
    IF KeyIndex(entries, name) # 0
    THEN entries
    ELSE Append(entries, [name |-> name, analyzer |-> value])

\* self._analyzers[name] = value
DictSet(entries, name, value) ==
    IF KeyIndex(entries, name) # 0
    THEN [entries EXCEPT ![KeyIndex(entries, name)].analyzer = value]
    ELSE Append(entries, [name |-> name, analyzer |-> value])

\* del self._analyzers[name]
DictDel(entries, name) == SelectSeq(entries, LAMBDA e : e.name # name)

\* line 43: self._analyzers.get(name)
get(name) ==
    IF KeyIndex(analyzers, name) # 0
    THEN analyzers[KeyIndex(analyzers, name)].analyzer
    ELSE None

\* line 47: dict(self._analyzers)
list == analyzers

\* lines 32-34: register(analyzer)
register(a) ==
    /\ Len(reg_log) < MaxOps
    /\ analyzers' = DictSet(analyzers, a.name, a)
    /\ reg_log' = Append(reg_log, [op |-> "register", name |-> a.name, analyzer |-> a])
    /\ UNCHANGED <<analysis, nonRegVars>>

\* lines 36-39: unregister(name)
unregister(name) ==
    /\ Len(reg_log) < MaxOps
    /\ analyzers' = IF KeyIndex(analyzers, name) # 0
                    THEN DictDel(analyzers, name)
                    ELSE analyzers
    /\ reg_log' = Append(reg_log, [op |-> "unregister", name |-> name, analyzer |-> None])
    /\ UNCHANGED <<analysis, nonRegVars>>

InExcludeNever(name, exclude) == FALSE

\* line 54: name in exclude
InExclude(name, exclude) == \E i \in 1..Len(exclude) : exclude[i] = name

\* lines 53-59: the loop over the dict's items, from entry i on; acc is
\* [issues, invoked, raised]
RECURSIVE AnalyzeFrom(_, _, _, _, _)
AnalyzeFrom(entries, i, html, exclude, acc) ==
    IF i > Len(entries) THEN acc
    ELSE IF InExclude(entries[i].name, exclude)
    THEN AnalyzeFrom(entries, i + 1, html, exclude, acc)
    ELSE LET out == Outcome(entries[i].analyzer, html)
             invoked == Append(acc.invoked, entries[i].analyzer.id)
         IN  IF out.raises = ""
             THEN AnalyzeFrom(entries, i + 1, html, exclude,
                              [acc EXCEPT !.invoked = invoked,
                                          !.issues = acc.issues \o out.issues])
             ELSE IF ExceptException(out.raises)
             THEN \* pass
                  AnalyzeFrom(entries, i + 1, html, exclude,
                              [acc EXCEPT !.invoked = invoked])
             ELSE \* the exception leaves analyze_all
                  [acc EXCEPT !.invoked = invoked, !.raised = TRUE]

NoAnalysis == [called |-> FALSE]

\* lines 49-60: analyze_all(html, exclude)
analyze_all(html, exclude) ==
    LET excl == IF exclude = "None" THEN <<>> ELSE exclude   \* exclude or []
        acc == AnalyzeFrom(analyzers, 1, html, excl,
                           [issues |-> <<>>, invoked |-> <<>>, raised |-> FALSE])
    IN  /\ analysis' = [called |-> TRUE, html |-> html, exclude |-> excl,
                        at |-> Len(reg_log), issues |-> acc.issues,
                        invoked |-> acc.invoked, raised |-> acc.raised]
        /\ UNCHANGED <<analyzers, reg_log, nonRegVars>>

\* line 30: AnalyzerRegistry.__init__
RegistryNew ==
    /\ analyzers = <<>>
    /\ reg_log = <<>>
    /\ analysis = NoAnalysis

(***************************************************************************)
(* _fetch_robots (crawler_scanner.py, lines 91-182).  A string is the      *)
(* sequence of its characters.  A line of robots.txt is what the three     *)
(* regular expressions make of it: [field, value] with field "ua", "dis"   *)
(* or "cd" and value the stripped text after the colon; blank lines,       *)
(* comments and other fields are skipped by the code and left out.         *)
(***************************************************************************)
MaxLines == 4

\* str.lower() on the characters used
LowerChar(c) == CASE c = "B" -> "b" [] c = "O" -> "o" [] OTHER -> c

lower(str) == [i \in 1..Len(str) |-> LowerChar(str[i])]

\* a in b, for strings
IsSubstring(a, b) ==
    \E i \in 0..(Len(b) - Len(a)) : SubSeq(b, i + 1, i + Len(a)) = a

Star == << "*" >>

\* the crawl agents tried; the second is the empty string
UserAgents == { << "B", "o" >>, << "b" >>, <<>> }

ListedAgents == { <<>>, Star, << "b", "O" >>, << "B" >>, << "x" >> }

\* the lines a robots.txt is drawn from
RobotsLines ==
    { [field |-> "ua", value |-> a] : a \in ListedAgents }
    \cup { [field |-> "dis", value |-> << "/", "a" >>],
           [field |-> "dis", value |-> << "/", "b" >>],
           [field |-> "cd", value |-> << "2" >>] }

RECURSIVE SeqsUpTo(_, _)
SeqsUpTo(S, n) ==
    IF n = 0 THEN { <<>> }
    ELSE LET shorter == SeqsUpTo(S, n - 1)
         IN  shorter \cup { Append(q, x) : q \in shorter, x \in S }

\* crawl_delay None
NoDelay == -1

\* line 138: float(text), NoDelay standing for the ValueError
ParseFloat(text) == IF text = << "2" >> THEN 2 ELSE NoDelay

\* _fetch_text returned None
NoText == [ok |-> FALSE, lines |-> <<>>]

\* line 115: a fresh group
NewGroup == [user_agents |-> <<>>, disallow |-> <<>>, crawl_delay |-> NoDelay]

\* lines 124 and 144: the group has something in it
NonEmptyGroup(g) ==
    g.user_agents # <<>> \/ g.disallow # <<>> \/ g.crawl_delay # NoDelay

\* lines 117-145: the parse loop from line i on, then the last group
RECURSIVE ParseFrom(_, _, _, _)
ParseFrom(lines, i, parsed, current) ==
    IF i > Len(lines)
    THEN IF NonEmptyGroup(current) THEN Append(parsed, current) ELSE parsed
    ELSE LET line == lines[i]
         IN  CASE line.field = "ua" ->
                    IF NonEmptyGroup(current)
                    THEN ParseFrom(lines, i + 1, Append(parsed, current),
                                   [NewGroup EXCEPT !.user_agents = << line.value >>])
                    ELSE ParseFrom(lines, i + 1, parsed,
                                   [current EXCEPT !.user_agents =
                                       Append(current.user_agents, line.value)])
               [] line.field = "dis" ->
                    ParseFrom(lines, i + 1, parsed,
                              [current EXCEPT !.disallow =
                                  Append(current.disallow, line.value)])
               [] OTHER ->
                    IF ParseFloat(line.value) # NoDelay
                    THEN ParseFrom(lines, i + 1, parsed,
                                   [current EXCEPT !.crawl_delay =
                                       ParseFloat(line.value)])
                    ELSE ParseFrom(lines, i + 1, parsed, current)

\* line 154: gu and gu.lower() == ua_lower, for some listed gu
ExactMatch(g, agent) ==
    \E k \in 1..Len(g.user_agents) :
        g.user_agents[k] # <<>> /\ lower(g.user_agents[k]) = lower(agent)

\* line 164: gu and gu != "*" and gu.lower() in ua_lower, for some listed gu
SubstringMatch(g, agent) ==
    \E k \in 1..Len(g.user_agents) :
        /\ g.user_agents[k] # <<>>
        /\ g.user_agents[k] # Star
        /\ IsSubstring(lower(g.user_agents[k]), lower(agent))

\* line 173: "*" in g["user_agents"]
WildcardMatch(g) == \E k \in 1..Len(g.user_agents) : g.user_agents[k] = Star

\* the test of one of the three loops (lines 152, 162, 172) on group g
Matches(pass, g, agent) ==
    CASE pass = "exact" -> ExactMatch(g, agent)
      [] pass = "substring" -> SubstringMatch(g, agent)
      [] pass = "wildcard" -> WildcardMatch(g)
      [] OTHER -> ExactMatch(g, agent) \/ SubstringMatch(g, agent) \/ WildcardMatch(g)

\* one loop over the groups with its break: the first group passing the
\* test, 0 if none
FirstIndex(gs, pass, agent) ==
    IF \E i \in 1..Len(gs) : Matches(pass, gs[i], agent)
    THEN CHOOSE i \in 1..Len(gs) :
            /\ Matches(pass, gs[i], agent)
            /\ \A j \in 1..(i - 1) : ~Matches(pass, gs[j], agent)
    ELSE 0

ChosenFirstOfAnyKind(gs, agent) == FirstIndex(gs, "any", agent)

\* lines 147-175: the index of the chosen group, 0 for chosen = None
Chosen(gs, agent) ==
    IF FirstIndex(gs, "exact", agent) # 0
    THEN FirstIndex(gs, "exact", agent)
    ELSE IF FirstIndex(gs, "substring", agent) # 0
    THEN FirstIndex(gs, "substring", agent)
    ELSE FirstIndex(gs, "wildcard", agent)

\* lines 177-182: what is returned for the chosen group
ResultOf(gs, c) ==
    IF c = 0
    THEN [disallows |-> <<>>, crawl_delay |-> 0]
    ELSE [disallows |-> gs[c].disallow,
          crawl_delay |-> IF gs[c].crawl_delay = NoDelay THEN 0
                          ELSE gs[c].crawl_delay]

NoResult == [disallows |-> <<>>, crawl_delay |-> -1]

\* lines 108-111: robots.txt could not be fetched or is empty
FetchRobotsEmpty ==
    /\ robots_pc = "fetching"
    /\ robots_text.lines = <<>>
    /\ robots_result' = [disallows |-> <<>>, crawl_delay |-> 0]
    /\ robots_pc' = "returned"
    /\ UNCHANGED <<robots_text, ua, groups, nonRobotsVars>>

\* lines 108-182: robots.txt was fetched; parse it and choose the group
FetchRobotsParsed ==
    /\ robots_pc = "fetching"
    /\ robots_text.lines # <<>>
    /\ groups' = ParseFrom(robots_text.lines, 1, <<>>, NewGroup)
    /\ robots_result' = ResultOf(groups', Chosen(groups', ua))
    /\ robots_pc' = "returned"
    /\ UNCHANGED <<robots_text, ua, nonRobotsVars>>

\* lines 91-108: _fetch_robots called, the fetch of robots.txt outstanding
RobotsCalled ==
    /\ robots_text \in {NoText}
          \cup { [ok |-> TRUE, lines |-> t] : t \in SeqsUpTo(RobotsLines, MaxLines) }
    /\ ua \in UserAgents
    /\ robots_pc = "fetching"
    /\ groups = <<>>
    /\ robots_result = NoResult

RobotsIdle ==
    /\ robots_text = NoText
    /\ ua = <<>>
    /\ robots_pc = "idle"
    /\ groups = <<>>
    /\ robots_result = NoResult

(***************************************************************************)
(* _fetch_text and _fetch_text_with_retry (crawler_scanner.py, lines       *)
(* 30-88).  One attempt is one client.get; its outcome is a 2xx response,  *)
(* a response raise_for_status rejects, or an exception of the client.     *)
(***************************************************************************)
\* line 30: RETRY_EXCEPTIONS
RETRY_EXCEPTIONS == {"TimeoutException", "ConnectError", "ReadError"}

\* the status codes that raise_for_status rejects, by the classes the code
\* tells apart, and an exception of the client that is not a network one
StatusOutcomes == {"404", "429", "500"}

OtherExceptions == {"InvalidURL"}

RetryAnyException(exc) == TRUE

\* line 34: retry_if_exception_type(RETRY_EXCEPTIONS)
retry_if_exception_type(exc) == exc \in RETRY_EXCEPTIONS

stop_attempts == 3

StopNever(n) == FALSE

\* line 35: stop_after_attempt(3)
stop_after_attempt(n) == n >= stop_attempts

ClientErrorAny(status) == TRUE

\* line 60: 400 <= status_code < 500 and status_code != 429
IsClientError(status) == status = "404"

RaisedByTransient(outcome) ==
    IF outcome \in StatusOutcomes THEN "TimeoutException" ELSE outcome

\* the exception that leaves the function body for an outcome that is not
\* returned from: lines 58-66
RaisedBy(outcome) ==
    IF outcome \in StatusOutcomes THEN "HTTPStatusError" ELSE outcome

\* lines 84-88 around 33-38: an exception left the function body at attempt
\* attempt_number; tenacity retries, or re-raises into _fetch_text's except
AfterRaise(exc) ==
    IF retry_if_exception_type(exc) /\ ~stop_after_attempt(attempt_number)
    THEN /\ fetch_pc' = "backoff"
         /\ UNCHANGED fetch_result
    ELSE \* reraise=True; except Exception: return None
         /\ fetch_pc' = "returned"
         /\ fetch_result' = "None"

\* lines 55-57: a 2xx response
AttemptReturnsText ==
    /\ fetch_pc = "attempt"
    /\ outcomes' = Append(outcomes, "200")
    /\ fetch_pc' = "returned"
    /\ fetch_result' = "text"
    /\ UNCHANGED <<attempt_number, nonFetchVars>>

\* lines 56-63: raise_for_status raised HTTPStatusError
AttemptRejected(status) ==
    /\ fetch_pc = "attempt"
    /\ outcomes' = Append(outcomes, status)
    /\ IF IsClientError(status)
       THEN /\ fetch_pc' = "returned"
            /\ fetch_result' = "None"
       ELSE AfterRaise(RaisedBy(status))
    /\ UNCHANGED <<attempt_number, nonFetchVars>>

\* lines 55, 64-66: client.get raised
AttemptRaises(exc) ==
    /\ fetch_pc = "attempt"
    /\ outcomes' = Append(outcomes, exc)
    /\ AfterRaise(RaisedBy(exc))
    /\ UNCHANGED <<attempt_number, nonFetchVars>>

\* line 36: the wait is over, the next attempt starts
BackoffReturns ==
    /\ fetch_pc = "backoff"
    /\ attempt_number' = attempt_number + 1
    /\ fetch_pc' = "attempt"
    /\ UNCHANGED <<outcomes, fetch_result, nonFetchVars>>

\* line 85: _fetch_text called, the first attempt outstanding
FetchTextCalled ==
    /\ fetch_pc = "attempt"
    /\ attempt_number = 1
    /\ outcomes = <<>>
    /\ fetch_result = "pending"

FetchIdle ==
    /\ fetch_pc = "idle"
    /\ attempt_number = 0
    /\ outcomes = <<>>
    /\ fetch_result = "pending"

(***************************************************************************)
(* core/severity.py.  A dict is a function from its keys to its values;    *)
(* Python's None as a value is the string "None".  An object passed to a   *)
(* function is a variable the function may change (issue, issues); what    *)
(* the function returns is another variable.                               *)
(***************************************************************************)
MaxIssues == 3

CRITICAL == "critical"
MAJOR == "major"
MINOR == "minor"

EmptyDict == [k \in {} |-> ""]

\* d[k] = v on a dict
SetItem(d, k, v) == [x \in DOMAIN d \cup {k} |-> IF x = k THEN v ELSE d[x]]

\* d.get(k, default)
GetItem(d, k, default) == IF k \in DOMAIN d THEN d[k] ELSE default

\* lines 15-145: SEVERITY_MAP
SEVERITY_MAP ==
    (   "IMG_MISSING_ALT" :>
               [level |-> CRITICAL, wcag |-> "1.1.1",
                wcag_name |-> "Non-text Content",
                impact |-> "Screen reader users cannot understand image content"])
    @@ (   "LINK_IMG_MISSING_ALT" :>
               [level |-> CRITICAL, wcag |-> "1.1.1",
                wcag_name |-> "Non-text Content",
                impact |-> "Screen reader users cannot understand link purpose"])
    @@ (   "FORM_CONTROL_NO_LABEL" :>
               [level |-> CRITICAL, wcag |-> "1.3.1",
                wcag_name |-> "Info and Relationships",
                impact |-> "Screen reader users cannot identify form fields"])
    @@ (   "LINK_NO_TEXT" :>
               [level |-> CRITICAL, wcag |-> "2.4.4",
                wcag_name |-> "Link Purpose (In Context)",
                impact |-> "Screen reader users cannot understand link destination"])
    @@ (   "BUTTON_NO_TEXT" :>
               [level |-> CRITICAL, wcag |-> "4.1.2",
                wcag_name |-> "Name, Role, Value",
                impact |-> "Screen reader users cannot understand button purpose"])
    @@ (   "MISSING_LANG" :>
               [level |-> CRITICAL, wcag |-> "3.1.1",
                wcag_name |-> "Language of Page",
                impact |-> "Screen readers may mispronounce content"])
    @@ (   "TABLE_NO_HEADERS" :>
               [level |-> CRITICAL, wcag |-> "1.3.1",
                wcag_name |-> "Info and Relationships",
                impact |-> "Screen reader users cannot understand table structure"])
    @@ (   "ARIA_HIDDEN_FOCUSABLE" :>
               [level |-> CRITICAL, wcag |-> "4.1.2",
                wcag_name |-> "Name, Role, Value",
                impact |-> "Keyboard users can focus invisible elements"])
    @@ (   "LOW_CONTRAST" :>
               [level |-> MAJOR, wcag |-> "1.4.3",
                wcag_name |-> "Contrast (Minimum)",
                impact |-> "Users with low vision may not be able to read text"])
    @@ (   "VIDEO_NO_CAPTIONS" :>
               [level |-> MAJOR, wcag |-> "1.2.2",
                wcag_name |-> "Captions (Prerecorded)",
                impact |-> "Deaf users cannot access video audio content"])
    @@ (   "AUDIO_NO_TRANSCRIPT" :>
               [level |-> MAJOR, wcag |-> "1.2.1",
                wcag_name |-> "Audio-only and Video-only",
                impact |-> "Deaf users cannot access audio content"])
    @@ (   "INVALID_ARIA_ROLE" :>
               [level |-> MAJOR, wcag |-> "4.1.2",
                wcag_name |-> "Name, Role, Value",
                impact |-> "Assistive technology may not interpret element correctly"])
    @@ (   "MISSING_MAIN" :>
               [level |-> MAJOR, wcag |-> "1.3.1",
                wcag_name |-> "Info and Relationships",
                impact |-> "Screen reader users cannot easily navigate to main content"])
    @@ (   "AUTOPLAY_NO_CONTROLS" :>
               [level |-> MAJOR, wcag |-> "1.4.2",
                wcag_name |-> "Audio Control",
                impact |-> "Users cannot stop unwanted audio"])
    @@ (   "HEADING_ORDER" :>
               [level |-> MINOR, wcag |-> "1.3.1",
                wcag_name |-> "Info and Relationships",
                impact |-> "May confuse screen reader users navigating by headings"])
    @@ (   "INVALID_LANG" :>
               [level |-> MINOR, wcag |-> "3.1.1",
                wcag_name |-> "Language of Page",
                impact |-> "Screen readers may not properly switch language"])
    @@ (   "NO_SKIP_LINK" :>
               [level |-> MINOR, wcag |-> "2.4.1",
                wcag_name |-> "Bypass Blocks",
                impact |-> "Keyboard users must tab through all navigation"])
    @@ (   "BROKEN_SKIP_LINK" :>
               [level |-> MINOR, wcag |-> "2.4.1",
                wcag_name |-> "Bypass Blocks",
                impact |-> "Skip link does not work as expected"])
    @@ (   "MULTIPLE_H1" :>
               [level |-> MINOR, wcag |-> "1.3.1",
                wcag_name |-> "Info and Relationships",
                impact |-> "May confuse screen reader users about page structure"])
    @@ (   "TABLE_NO_CAPTION" :>
               [level |-> MINOR, wcag |-> "1.3.1",
                wcag_name |-> "Info and Relationships",
                impact |-> "Screen reader users may not understand table purpose"])
    @@ (   "MISSING_TITLE" :>
               [level |-> MINOR, wcag |-> "2.4.2",
                wcag_name |-> "Page Titled",
                impact |-> "Users may not identify page purpose in tabs/bookmarks"])

\* line 148
SEVERITY_ORDER == [level \in {CRITICAL, MAJOR, MINOR} |->
                      CASE level = CRITICAL -> 0 [] level = MAJOR -> 1 [] OTHER -> 2]

\* lines 151-162
get_severity(code) ==
    IF code \in DOMAIN SEVERITY_MAP THEN SEVERITY_MAP[code].level ELSE MINOR

\* lines 165-176
get_wcag_criterion(code) ==
    IF code \in DOMAIN SEVERITY_MAP THEN SEVERITY_MAP[code].wcag ELSE "None"

\* lines 179-190
get_wcag_name(code) ==
    IF code \in DOMAIN SEVERITY_MAP THEN SEVERITY_MAP[code].wcag_name ELSE "None"

\* lines 193-204
get_impact(code) ==
    IF code \in DOMAIN SEVERITY_MAP THEN SEVERITY_MAP[code].impact ELSE "None"

\* lines 219-222: the four assignments, on dict d
WithSeverityFields(d, code) ==
    SetItem(SetItem(SetItem(SetItem(d, "severity", get_severity(code)),
                            "wcag", get_wcag_criterion(code)),
                    "wcag_name", get_wcag_name(code)),
            "impact", get_impact(code))

enrich_issue_in_place(arg) ==
    LET code == GetItem(arg, "code", "")
    IN  [arg |-> WithSeverityFields(arg, code), ret |-> WithSeverityFields(arg, code)]

\* lines 207-224: enrich_issue; arg is the argument after the call, ret the
\* dict returned (a copy, line 217)
enrich_issue(arg) ==
    LET code == GetItem(arg, "code", "")
        copy == arg
    IN  [arg |-> arg, ret |-> WithSeverityFields(copy, code)]

\* line 250: the sort key
SortKey(x) ==
    LET severity == GetItem(x, "severity", MINOR)
    IN  IF severity \in DOMAIN SEVERITY_ORDER THEN SEVERITY_ORDER[severity] ELSE 2

\* sorted(): x goes behind every element whose key is not greater
InsertBehindEquals(sorted_so_far, x) ==
    LET n == Cardinality({i \in 1..Len(sorted_so_far) :
                             SortKey(sorted_so_far[i]) <= SortKey(x)})
    IN  SubSeq(sorted_so_far, 1, n) \o <<x>>
          \o SubSeq(sorted_so_far, n + 1, Len(sorted_so_far))

RECURSIVE SortedFrom(_, _, _)
SortedFrom(list_, i, acc) ==
    IF i > Len(list_) THEN acc
    ELSE SortedFrom(list_, i + 1, InsertBehindEquals(acc, list_[i]))

sort_by_severity_in_place(arg) ==
    [arg |-> SortedFrom(arg, 1, <<>>), ret |-> SortedFrom(arg, 1, <<>>)]

RECURSIVE Reversed(_)
Reversed(q) == IF q = <<>> THEN <<>> ELSE Append(Reversed(Tail(q)), Head(q))

sort_by_severity_unstable(arg) ==
    [arg |-> arg, ret |-> Reversed(SortedFrom(Reversed(arg), 1, <<>>))]

\* lines 239-251: sort_by_severity; sorted() builds a new list
sort_by_severity(arg) ==
    [arg |-> arg, ret |-> SortedFrom(arg, 1, <<>>)]

\* analyzers/plugins.py: the issue codes each built-in analyzer can emit (the
\* "code" of every dict its analyze appends)
EmittedCodes ==
    ("AltTextAnalyzer" :> {"IMG_MISSING_ALT", "LINK_IMG_MISSING_ALT"})
    @@ ("FormLabelAnalyzer" :> {"FORM_CONTROL_NO_LABEL"})
    @@ ("HeadingOrderAnalyzer" :> {"HEADING_ORDER"})
    @@ ("ContrastAnalyzer" :> {"LOW_CONTRAST"})
    @@ ("LinkTextAnalyzer" :> {"LINK_NO_TEXT"})
    @@ ("LanguageAnalyzer" :> {"MISSING_LANG", "INVALID_LANG"})
    @@ ("ButtonAnalyzer" :> {"BUTTON_NO_TEXT"})
    @@ ("DocumentStructureAnalyzer" :> {"MISSING_TITLE", "MISSING_MAIN", "MULTIPLE_H1", "MISSING_H1"})
    @@ ("TableAnalyzer" :> {"TABLE_NO_HEADERS", "TABLE_NO_CAPTION", "TABLE_MISSING_SCOPE"})
    @@ ("ARIAAnalyzer" :> {"INVALID_ARIA_ROLE", "ARIA_HIDDEN_FOCUSABLE"})
    @@ ("SkipLinkAnalyzer" :> {"BROKEN_SKIP_LINK", "NO_SKIP_LINK"})
    @@ ("MediaAnalyzer" :> {"VIDEO_NO_CAPTIONS", "AUTOPLAY_NO_CONTROLS"})

\* analyzers/__init__.py, lines 30-43: the codes of the twelve registered
BuiltinCodes == UNION {EmittedCodes[a] : a \in DOMAIN EmittedCodes}

\* the issue dicts passed to enrich_issue
IssueCodes == BuiltinCodes \cup {"AUDIO_NO_TRANSCRIPT", "CUSTOM_RULE"}

WithOptional(ds, k, vs) == ds \cup { SetItem(d, k, v) : d \in ds, v \in vs }

IssueDicts ==
    WithOptional(WithOptional(WithOptional({EmptyDict}, "code", IssueCodes),
                              "message", {"Test"}),
                 "severity", {CRITICAL, MINOR})

\* the issue lists passed to sort_by_severity: the message of an issue is
\* its place in the list, its severity is missing, unknown or a level
SeverityValues == {CRITICAL, MAJOR, MINOR, "blocker"}

Messages == << "first", "second", "third", "fourth", "fifth" >>

IssueAt(i, severity) ==
    IF severity = "missing"
    THEN SetItem(EmptyDict, "message", Messages[i])
    ELSE SetItem(SetItem(EmptyDict, "message", Messages[i]), "severity", severity)

IssueLists ==
    { [i \in 1..Len(sevs) |-> IssueAt(i, sevs[i])] :
         sevs \in SeqsUpTo(SeverityValues \cup {"missing"}, MaxIssues) }

\* lines 207-224
EnrichIssue ==
    /\ sev_pc = "enrich"
    /\ issue' = enrich_issue(issue).arg
    /\ enriched' = enrich_issue(issue).ret
    /\ sev_pc' = "enriched"
    /\ UNCHANGED <<issues, sorted_issues, given, nonSevVars>>

\* lines 239-251
SortBySeverity ==
    /\ sev_pc = "sort"
    /\ issues' = sort_by_severity(issues).arg
    /\ sorted_issues' = sort_by_severity(issues).ret
    /\ sev_pc' = "sorted"
    /\ UNCHANGED <<issue, enriched, given, nonSevVars>>

\* enrich_issue(issue) called
EnrichCalled ==
    /\ sev_pc = "enrich"
    /\ issue \in IssueDicts
    /\ given = issue
    /\ enriched = EmptyDict
    /\ issues = <<>>
    /\ sorted_issues = <<>>

\* sort_by_severity(issues) called
SortCalled ==
    /\ sev_pc = "sort"
    /\ issues \in IssueLists
    /\ given = issues
    /\ sorted_issues = <<>>
    /\ issue = EmptyDict
    /\ enriched = EmptyDict

SevIdle ==
    /\ sev_pc = "idle"
    /\ issue = EmptyDict
    /\ enriched = EmptyDict
    /\ issues = <<>>
    /\ sorted_issues = <<>>
    /\ given = <<>>

(***************************************************************************)
(* ARIAAnalyzer (analyzers/plugins.py, lines 618-691).  The parsed page is *)
(* the sequence of its elements in document order; an element is the       *)
(* record of its tag name, of the attributes the analyzer reads ("None"    *)
(* for an attribute that is absent) and of the index of its parent, 0 for  *)
(* an element at the top.                                                   *)
(***************************************************************************)
MaxElements == 3

\* lines 19-46
VALID_ARIA_ROLES ==
    { "alert", "alertdialog", "application", "article", "banner",
      "button", "cell", "checkbox", "columnheader", "combobox",
      "command", "complementary", "composite", "contentinfo",
      "definition", "dialog", "directory", "document", "feed",
      "figure", "form", "generic", "gridcell", "group", "heading",
      "img", "input", "landmark", "link", "list", "listbox",
      "listitem", "log", "main", "marquee", "math", "menu", "menubar",
      "menuitem", "menuitemcheckbox", "menuitemradio", "navigation",
      "none", "note", "option", "presentation", "progressbar",
      "radio", "radiogroup", "range", "region", "roletype", "row",
      "rowgroup", "rowheader", "scrollbar", "search", "searchbox",
      "section", "sectionhead", "select", "separator", "slider",
      "spinbutton", "status", "structure", "switch", "tab", "table",
      "tablist", "tabpanel", "term", "textbox", "timer", "toolbar",
      "tooltip", "tree", "treegrid", "treeitem", "widget", "window" }

Tag(name, href, disabled, tabindex, contenteditable, aria_hidden, role, parent) ==
    [name |-> name, href |-> href, disabled |-> disabled, tabindex |-> tabindex,
     contenteditable |-> contenteditable, aria_hidden |-> aria_hidden,
     role |-> role, parent |-> parent]

\* line 670
focusable_tags == {"a", "button", "input", "select", "textarea", "iframe"}

\* int(tabindex) of line 684 raises ValueError
IntRaises(text) == text \notin {"0", "-1", "3"}

\* int(tabindex)
ParseInt(text) == CASE text = "0" -> 0 [] text = "-1" -> -1 [] OTHER -> 3

\* lines 666-691: _is_focusable
is_focusable(e) ==
    IF e.name \in focusable_tags
    THEN IF e.name = "a" /\ e.href \in {"None", ""} THEN FALSE
         ELSE IF e.disabled # "None" THEN FALSE
         ELSE TRUE
    ELSE IF e.tabindex # "None" /\ ~IntRaises(e.tabindex)
    THEN ParseInt(e.tabindex) >= 0
    ELSE e.contenteditable = "true"

\* line 635: role.strip().lower() on the role values used
StripLower(role) ==
    CASE role = " Button" -> "button" [] role = " " -> "" [] OTHER -> role

\* lines 634-641: the loop over the elements with a role attribute, from i on
RECURSIVE InvalidRolesFrom(_, _, _)
InvalidRolesFrom(doc, i, acc) ==
    IF i > Len(doc) THEN acc
    ELSE LET role == StripLower(doc[i].role)
         IN  IF doc[i].role # "None" /\ role # "" /\ role \notin VALID_ARIA_ROLES
             THEN InvalidRolesFrom(doc, i + 1,
                      Append(acc, [code |-> "INVALID_ARIA_ROLE",
                                   message |-> "Invalid ARIA role", context |-> i]))
             ELSE InvalidRolesFrom(doc, i + 1, acc)

\* j is inside element i
RECURSIVE IsInside(_, _, _)
IsInside(doc, j, i) ==
    IF doc[j].parent = 0 THEN FALSE
    ELSE doc[j].parent = i \/ IsInside(doc, doc[j].parent, i)

\* line 654: el.find_all(True), the indices of the descendants of element i
Descendants(doc, i) == {j \in 1..Len(doc) : IsInside(doc, j, i)}

\* lines 645-651: the issue for an aria-hidden element that is focusable
SelfIssue(doc, i) ==
    IF is_focusable(doc[i])
    THEN << [code |-> "ARIA_HIDDEN_FOCUSABLE", message |-> "is focusable",
             context |-> i] >>
    ELSE <<>>

\* lines 654-662: one issue if some descendant is focusable (the break)
ChildIssueEach(doc, i) ==
    LET hits == {j \in Descendants(doc, i) : is_focusable(doc[j])}
    IN  [k \in 1..Cardinality(hits) |->
            [code |-> "ARIA_HIDDEN_FOCUSABLE",
             message |-> "contains focusable content", context |-> i]]

ChildIssue(doc, i) ==
    IF \E j \in Descendants(doc, i) : is_focusable(doc[j])
    THEN << [code |-> "ARIA_HIDDEN_FOCUSABLE",
             message |-> "contains focusable content", context |-> i] >>
    ELSE <<>>

\* lines 644-662: the loop over the elements with aria-hidden="true", from i on
RECURSIVE AriaHiddenFrom(_, _, _)
AriaHiddenFrom(doc, i, acc) ==
    IF i > Len(doc) THEN acc
    ELSE IF doc[i].aria_hidden = "true"
    THEN AriaHiddenFrom(doc, i + 1, acc \o SelfIssue(doc, i) \o ChildIssue(doc, i))
    ELSE AriaHiddenFrom(doc, i + 1, acc)

\* lines 630-664: ARIAAnalyzer.analyze
analyze(doc) == AriaHiddenFrom(doc, 1, InvalidRolesFrom(doc, 1, <<>>))

\* the elements _is_focusable is tried on: every combination of the
\* attributes it reads
TestedElements ==
    { Tag(name, href, disabled, tabindex, contenteditable, "None", "None", 0) :
        name \in {"a", "button", "input", "div"},
        href \in {"None", "", "#x"},
        disabled \in {"None", "", "disabled"},
        tabindex \in {"None", "0", "-1", "3", "x"},
        contenteditable \in {"None", "true", "false"} }

\* the elements the analysed pages are made of, before they are placed
PageElements ==
    { Tag("div", "None", "None", "None", "None", "None", "None", 0),
      Tag("div", "None", "None", "None", "None", "true", " Button", 0),
      Tag("div", "None", "None", "0", "None", "true", "bogus", 0),
      Tag("button", "None", "None", "None", "None", "None", " ", 0),
      Tag("a", "#x", "None", "None", "None", "true", "None", 0),
      Tag("input", "None", "disabled", "None", "None", "false", "None", 0) }

\* the pages of n elements: each element inside one of those before it, or
\* at the top
RECURSIVE DocumentsOf(_)
DocumentsOf(n) ==
    IF n = 0 THEN { <<>> }
    ELSE { Append(doc, [e EXCEPT !.parent = p]) :
              doc \in DocumentsOf(n - 1), e \in PageElements, p \in 0..(n - 1) }

\* the pages of at least one and at most max elements
Documents(max) == UNION { DocumentsOf(n) : n \in 1..max }

NoElement == Tag("", "None", "None", "None", "None", "None", "None", 0)

\* lines 666-691
IsFocusable ==
    /\ aria_pc = "test"
    /\ focusable' = is_focusable(element)
    /\ aria_pc' = "tested"
    /\ UNCHANGED <<element, document, aria_issues, nonAriaVars>>

\* lines 630-664
Analyze ==
    /\ aria_pc = "analyze"
    /\ aria_issues' = analyze(document)
    /\ aria_pc' = "analyzed"
    /\ UNCHANGED <<element, focusable, document, nonAriaVars>>

\* _is_focusable(element) called
IsFocusableCalled ==
    /\ aria_pc = "test"
    /\ element \in TestedElements
    /\ focusable = FALSE
    /\ document = <<>>
    /\ aria_issues = <<>>

\* analyze(html) called, html parsed
AnalyzeCalled ==
    /\ aria_pc = "analyze"
    /\ document \in Documents(MaxElements)
    /\ aria_issues = <<>>
    /\ element = NoElement
    /\ focusable = FALSE

AriaIdle ==
    /\ aria_pc = "idle"
    /\ element = NoElement
    /\ focusable = FALSE
    /\ document = <<>>
    /\ aria_issues = <<>>

(***************************************************************************)
(* States of the parts a specification does not exercise.                  *)
(***************************************************************************)
CrawlIdle ==
    /\ max_pages = 0
    /\ concurrency = 0
    /\ rate_limited = FALSE
    /\ delayed = FALSE
    /\ disallows = <<>>
    /\ sitemap_urls = <<>>
    /\ pages = SiteGood
    /\ seen = {}
    /\ to_visit = <<>>
    /\ issues_map = [u \in {} |-> <<>>]
    /\ total_found = 0
    /\ pc = <<>>
    /\ cur = <<>>
    /\ session = "idle"
    /\ fetches = [u \in {} |-> 0]
    /\ writes = [u \in {} |-> 0]
    /\ acquired = {}
    /\ queued = {}
    /\ fetch_failed = FALSE
    /\ on_progress = NoProgress

LimiterIdle ==
    /\ RateLimiterNew(Zero)
    /\ now = 0
    /\ task = <<>>
    /\ completions = <<>>

AdaptIdle ==
    /\ initial_rps = Zero
    /\ min_rps = Zero
    /\ max_rps = Zero
    /\ success_count = 0
    /\ error_count = 0
    /\ slow_response_count = 0

LibIdle ==
    /\ RegistryNew
    /\ RobotsIdle
    /\ FetchIdle
    /\ SevIdle
    /\ AriaIdle

(***************************************************************************)
(* Specifications.                                                         *)
(***************************************************************************)
\* one crawl session
Init ==
    /\ CrawlInit
    /\ LimiterIdle
    /\ AdaptIdle
    /\ LibIdle

Worker(w) ==
    \/ GetReturns(w)
    \/ DequeueTimeout(w)
    \/ Dequeued(w)
    \/ RateLimiterAcquired(w)
    \/ FetchFails(w)
    \/ FetchSucceeds(w)
    \/ SleepReturns(w)

Next ==
    \/ \E w \in Workers : GetReturns(w)
    \/ \E w \in Workers : DequeueTimeout(w)
    \/ \E w \in Workers : Dequeued(w)
    \/ \E w \in Workers : RateLimiterAcquired(w)
    \/ \E w \in Workers : FetchFails(w)
    \/ \E w \in Workers : FetchSucceeds(w)
    \/ \E w \in Workers : SleepReturns(w)
    \/ GatherReturns
    \/ GatherRaises

Spec == Init /\ [][Next]_vars

\* one RateLimiter shared by MaxTasks tasks
LimiterInit ==
    /\ CrawlIdle
    /\ \E rps \in RpsChoices : RateLimiterNew(rps)
    /\ now \in {0, 2}
    /\ task = [t \in Tasks |-> IdleTask]
    /\ completions = <<>>
    /\ AdaptIdle
    /\ LibIdle

LimiterNext ==
    \/ \E t \in Tasks : AcquireCall(t)
    \/ \E t \in Tasks : LockGranted(t)
    \/ \E t \in Tasks : AcquireSleepReturns(t)
    \/ Tick

LimiterSpec == LimiterInit /\ [][LimiterNext]_vars

\* one crawl session under fair scheduling: every task that can take a step
\* eventually does (the event loop runs every ready task; fetch, acquire, sleep
\* and the dequeue timeout all return), and gather completes
FairSpec ==
    /\ Spec
    /\ \A w \in 1..MaxConcurrency : WF_vars(w \in Workers /\ Worker(w))
    /\ WF_vars(GatherReturns)
    /\ WF_vars(GatherRaises)

\* one AdaptiveRateLimiter and the outcomes reported to it
AdaptiveInit ==
    /\ CrawlIdle
    /\ \E i \in InitialRpsChoices, lo \in MinRpsChoices, hi \in MaxRpsChoices :
          AdaptiveNew(i, lo, hi)
    /\ now = 0
    /\ task = <<>>
    /\ completions = <<>>
    /\ LibIdle

AdaptiveNext ==
    \/ \E rt \in ResponseTimes : RecordSuccess(rt)
    \/ RecordError

AdaptiveSpec == AdaptiveInit /\ [][AdaptiveNext]_vars

\* one AnalyzerRegistry and the calls made on it
RegistryInit ==
    /\ CrawlIdle
    /\ LimiterIdle
    /\ AdaptIdle
    /\ RegistryNew
    /\ RobotsIdle
    /\ FetchIdle
    /\ SevIdle
    /\ AriaIdle

RegistryNext ==
    \/ \E a \in AnalyzerObjects : register(a)
    \/ \E name \in AnalyzerNames : unregister(name)
    \/ \E html \in Htmls, exclude \in Excludes : analyze_all(html, exclude)

RegistrySpec == RegistryInit /\ [][RegistryNext]_vars

\* one call of _fetch_robots
RobotsInit ==
    /\ CrawlIdle
    /\ LimiterIdle
    /\ AdaptIdle
    /\ RegistryNew
    /\ RobotsCalled
    /\ FetchIdle
    /\ SevIdle
    /\ AriaIdle

RobotsNext ==
    \/ FetchRobotsEmpty
    \/ FetchRobotsParsed

RobotsSpec == RobotsInit /\ [][RobotsNext]_vars

\* one call of _fetch_text
FetchInit ==
    /\ CrawlIdle
    /\ LimiterIdle
    /\ AdaptIdle
    /\ RegistryNew
    /\ RobotsIdle
    /\ FetchTextCalled
    /\ SevIdle
    /\ AriaIdle

FetchNext ==
    \/ AttemptReturnsText
    \/ \E status \in StatusOutcomes : AttemptRejected(status)
    \/ \E exc \in RETRY_EXCEPTIONS \cup OtherExceptions : AttemptRaises(exc)
    \/ BackoffReturns

FetchSpec == FetchInit /\ [][FetchNext]_vars

\* one call of enrich_issue or of sort_by_severity
SeverityInit ==
    /\ CrawlIdle
    /\ LimiterIdle
    /\ AdaptIdle
    /\ RegistryNew
    /\ RobotsIdle
    /\ FetchIdle
    /\ (EnrichCalled \/ SortCalled)
    /\ AriaIdle

SeverityNext ==
    \/ EnrichIssue
    \/ SortBySeverity

SeveritySpec == SeverityInit /\ [][SeverityNext]_vars

\* one call of _is_focusable or of ARIAAnalyzer.analyze
AriaInit ==
    /\ CrawlIdle
    /\ LimiterIdle
    /\ AdaptIdle
    /\ RegistryNew
    /\ RobotsIdle
    /\ FetchIdle
    /\ SevIdle
    /\ (IsFocusableCalled \/ AnalyzeCalled)

AriaNext ==
    \/ IsFocusable
    \/ Analyze

AriaSpec == AriaInit /\ [][AriaNext]_vars

(***************************************************************************)
(* Properties of the crawl session (Spec, FairSpec).                       *)
(***************************************************************************)
Range(q) == {q[i] : i \in 1..Len(q)}

\* C1: in one session every URL is fetched at most once, whatever the number
\* of workers and their interleaving.
C1_AtMostOnceFetch == \A u \in DOMAIN fetches : fetches[u] <= 1

\* C2: len(seen) <= max_pages in every reachable state.
C2_SeenWithinMaxPages == Cardinality(seen) <= max_pages

\* C3: issues_map is assigned at most once per URL key during a session.
C3_SingleWritePerKey == \A u \in DOMAIN writes : writes[u] <= 1

\* C4: every URL ever put on the frontier, dequeued, passed to the rate
\* limiter, fetched, added to seen or given a results entry has the network
\* location of the start URL.
C4_SameNetlocOnly ==
    \A u \in queued \cup seen \cup acquired \cup DOMAIN issues_map
             \cup DOMAIN fetches \cup {cur[w] : w \in {x \in DOMAIN cur : cur[x] # NoUrl}} :
        u.netloc = start_url.netloc

\* C4 witness: an external sitemap entry was offered at seeding and the index
\* page, which links to an external page before it links to /px, was fetched
\* and its links discovered, and the session returned.
C4_Witness ==
    /\ session = "returned"
    /\ Ext \in Range(sitemap_urls)
    /\ PageP \in queued
    /\ Root \in DOMAIN fetches

\* the claim's own reading of "path starts with a non-empty Disallow prefix"
Disallowed(u) ==
    LET path == IF u.path = <<>> THEN <<"/">> ELSE u.path IN
    \E i \in 1..Len(disallows) :
        /\ Len(disallows[i]) > 0
        /\ Len(disallows[i]) <= Len(path)
        /\ \A k \in 1..Len(disallows[i]) : path[k] = disallows[i][k]

\* URLs that link discovery on the pages that are not disallowed can produce
LinkedFromAllowed ==
    UNION {{StripFragment(urljoin(p, pages[p].links[i])) :
                i \in {k \in 1..Len(pages[p].links) : ~pages[p].links[k].bad}} :
           p \in {x \in DOMAIN pages : ~Disallowed(x)}}

\* C5: a robots-disallowed URL is never passed to the rate limiter or fetched,
\* once a worker has dequeued and handled it (it is neither queued nor in a
\* worker's hands) it is in seen with an empty issue list, and its links are not
\* discovered (the frontier only ever holds seeds and links of pages that are
\* not disallowed); the start URL included.
C5_BlockedNeverFetched ==
    /\ \A u \in queued :
          Disallowed(u) =>
              /\ Count(fetches, u) = 0
              /\ u \notin acquired
              /\ \A w \in DOMAIN cur : cur[w] = u => pc[w] = "got"
              /\ u \in DOMAIN issues_map => issues_map[u] = <<>>
              /\ (~InQueue(u, to_visit) /\ \A w \in DOMAIN cur : cur[w] # u) =>
                    u \in seen /\ u \in DOMAIN issues_map
    /\ queued \subseteq Range(sitemap_urls) \cup {start_url} \cup LinkedFromAllowed

\* C5 witness: /px is disallowed, was dequeued and recorded, and the session
\* returned with rate limiting on.
C5_Witness ==
    /\ session = "returned"
    /\ rate_limited
    /\ Disallowed(PageP)
    /\ ~Disallowed(Root)
    /\ PageP \in seen
    /\ Root \in DOMAIN fetches

\* C6: no failure while processing one page aborts the session: no worker
\* ends with an exception and scan_site_enhanced does not raise.
C6_NoPageFailureAborts ==
    /\ session # "raised"
    /\ \A w \in DOMAIN pc : pc[w] # "raised"

\* same-domain URLs one link away from u (fragments stripped)
SameDomainLinks(u) ==
    IF u \notin DOMAIN pages THEN {}
    ELSE {v \in {StripFragment(urljoin(u, pages[u].links[i])) :
                    i \in {k \in 1..Len(pages[u].links) : ~pages[u].links[k].bad}} :
            v.netloc = start_url.netloc}

RECURSIVE ReachFrom(_)
ReachFrom(S) ==
    LET N == S \cup UNION {SameDomainLinks(u) : u \in S} IN
    IF N = S THEN S ELSE ReachFrom(N)

Reachable ==
    ReachFrom({start_url}
              \cup {s \in Range(sitemap_urls) : s.netloc = start_url.netloc})

C7_Premises ==
    /\ session # "idle"
    /\ ~fetch_failed
    /\ \A u \in Reachable : ~Disallowed(u) /\ u \in DOMAIN pages
    /\ Cardinality(Reachable) <= max_pages

\* C7: on a site where every fetch succeeds, nothing is disallowed and at most
\* max_pages URLs are reachable, a session that has come to rest has returned
\* a mapping whose key set is exactly the reachable set.
C7_VisitsExactlyReachable ==
    (C7_Premises /\ ~ENABLED Next) =>
        session = "returned" /\ DOMAIN issues_map = Reachable

\* C7, restricted to the sessions that return: the returned key set is
\* exactly the reachable set (kept as a lemma; the sessions that do not
\* return are those of C6).
C7_ReturnedVisitsExactlyReachable ==
    (C7_Premises /\ session = "returned") => DOMAIN issues_map = Reachable

\* C8: under fair scheduling every session ends with all workers out of their
\* loop and scan_site_enhanced returning.
C8_TerminatesAndReturns == <>(session = "returned")

\* C8, as termination alone: every session ends, by returning or by
\* re-raising a worker's exception (kept as a lemma).
C8_Terminates == <>(session \in {"returned", "raised"})

(***************************************************************************)
(* Properties of the rate limiters (LimiterSpec, AdaptiveSpec).            *)
(***************************************************************************)
\* C9: with requests_per_second > 0, any two consecutive returns of acquire(),
\* by the same or by different tasks, are at least min_interval apart on the
\* monotonic clock.
C9_AcquireSpacing ==
    requests_per_second.n > 0 =>
        \A i \in 1..(Len(completions) - 1) :
            (completions[i + 1] - completions[i]) * requests_per_second.n
                >= requests_per_second.d

\* C9 witness: two returns have happened while a second task was made to
\* queue on the lock behind a sleeping holder.
C9_Witness ==
    /\ requests_per_second.n > 0
    /\ Len(completions) >= 2
    /\ lock_waiters # <<>>
    /\ \E t \in DOMAIN task : task[t].pc = "sleeping"

\* C10: requests_per_second lies in [min_rps, max_rps] in every reachable
\* state of an AdaptiveRateLimiter, construction included.
C10_RateWithinBounds ==
    /\ RatLeq(min_rps, requests_per_second)
    /\ RatLeq(requests_per_second, max_rps)

\* C10, for limiters constructed with min_rps <= initial_rps <= max_rps
\* (kept as a lemma).
C10_WithinBoundsIfConstructedWithin ==
    (RatLeq(min_rps, initial_rps) /\ RatLeq(initial_rps, max_rps))
        => C10_RateWithinBounds

(***************************************************************************)
(* Properties of AdaptiveRateLimiter's rate changes (AdaptiveSpec).        *)
(***************************************************************************)
ErrorRecorded == error_count' = error_count + 1

\* a record_success whose response_time is within the slow threshold
FastSuccessRecorded ==
    /\ success_count' = success_count + 1
    /\ slow_response_count' = slow_response_count

\* the cumulative number of fast successes
FastSuccesses == success_count - slow_response_count

\* C11: after every record_error() the rate is strictly lower than before the
\* call and not below min_rps.
C11_ErrorStrictlyDecreases ==
    [][ErrorRecorded =>
          /\ RatLess(requests_per_second', requests_per_second)
          /\ RatLeq(min_rps, requests_per_second')]_vars

\* C11, amended: after every record_error() the rate is not below min_rps; it
\* is strictly lower than before when the rate before was above min_rps, and
\* unchanged when the rate before was min_rps.
C11_ErrorDecreasesDownToMin ==
    [][ErrorRecorded =>
          /\ RatLeq(min_rps, requests_per_second')
          /\ RatLess(min_rps, requests_per_second)
                => RatLess(requests_per_second', requests_per_second)
          /\ requests_per_second = min_rps
                => requests_per_second' = requests_per_second]_vars

\* C11 witness: errors have lowered a rate that started above min_rps all the
\* way to min_rps, and one more was recorded there.
C11_Witness ==
    /\ RatLess(min_rps, initial_rps)
    /\ requests_per_second = min_rps
    /\ error_count >= 5
    /\ success_count = 0

\* C12: for a limiter below max_rps, the rate strictly increases at the call
\* that brings the cumulative number of fast successes to a multiple of 10,
\* whatever slow successes or errors came in between, and is then not above
\* max_rps.
C12_IncreaseAtTenthFastSuccess ==
    [][(/\ FastSuccessRecorded
        /\ FastSuccesses' % 10 = 0
        /\ RatLess(requests_per_second, max_rps))
          => /\ RatLess(requests_per_second, requests_per_second')
             /\ RatLeq(requests_per_second', max_rps)]_vars

\* C12, amended: the count that triggers the increase is the cumulative number
\* of all successes, slow ones included.  A fast success that brings it to a
\* multiple of 10 strictly increases a positive rate below max_rps, to a rate
\* not above max_rps; any other fast success leaves the rate unchanged.
C12_IncreaseAtTenthSuccess ==
    [][FastSuccessRecorded =>
          IF success_count' % 10 = 0
          THEN (requests_per_second.n > 0 /\ RatLess(requests_per_second, max_rps))
                  => /\ RatLess(requests_per_second, requests_per_second')
                     /\ RatLeq(requests_per_second', max_rps)
          ELSE requests_per_second' = requests_per_second]_vars

\* C12 witness: ten successes, one of them slow, and one error were recorded;
\* the rate was lowered twice (staying above min_rps) and raised once, at the
\* tenth success, which was fast.
C12_Witness ==
    /\ success_count = 10
    /\ slow_response_count = 1
    /\ error_count = 1
    /\ RatLess(min_rps, RatMul(initial_rps, Rat(64, 100)))
    /\ requests_per_second = RatMul(initial_rps, Rat(704, 1000))
    /\ RatLess(requests_per_second, max_rps)

(***************************************************************************)
(* Properties of AnalyzerRegistry (RegistrySpec), stated over the calls    *)
(* made (reg_log), not over the dict.                                      *)
(***************************************************************************)
\* the calls on name among the first n calls
CallsOn(n, name) == {i \in 1..n : reg_log[i].name = name}

\* the last call on name among the first n calls, 0 if there is none
LastCallOn(n, name) ==
    IF CallsOn(n, name) = {} THEN 0
    ELSE CHOOSE i \in CallsOn(n, name) : \A j \in CallsOn(n, name) : j <= i

\* name is registered after the first n calls
IsRegistered(n, name) ==
    LastCallOn(n, name) # 0 /\ reg_log[LastCallOn(n, name)].op = "register"

\* the analyzer most recently registered under name, None if there is none
\* or it was unregistered afterwards
LastRegistered(n, name) ==
    IF IsRegistered(n, name) THEN reg_log[LastCallOn(n, name)].analyzer ELSE None

\* the call that put name into the registry it is in now: the first register
\* call on name after which name was never unregistered
EntryCallOf(n, name) ==
    CHOOSE i \in CallsOn(n, name) :
        /\ \A j \in CallsOn(n, name) : j >= i => reg_log[j].op = "register"
        /\ \A k \in CallsOn(n, name) :
              (\A j \in CallsOn(n, name) : j >= k => reg_log[j].op = "register")
                 => i <= k

\* what one analyzer adds to the result of analyze_all
Adds(a, html, exclude) ==
    IF a.name \in Range(exclude) \/ Outcome(a, html).raises # ""
    THEN <<>>
    ELSE Outcome(a, html).issues

\* the issue lists of the registered analyzers, concatenated in the order of
\* the register calls that registered them
RECURSIVE InRegistrationOrder(_, _, _, _)
InRegistrationOrder(n, i, html, exclude) ==
    IF i > n THEN <<>>
    ELSE (IF IsRegistered(n, reg_log[i].name) /\ LastCallOn(n, reg_log[i].name) = i
          THEN Adds(reg_log[i].analyzer, html, exclude)
          ELSE <<>>) \o InRegistrationOrder(n, i + 1, html, exclude)

\* the same, in the order in which the names entered the registry
RECURSIVE InEntryOrder(_, _, _, _)
InEntryOrder(n, i, html, exclude) ==
    IF i > n THEN <<>>
    ELSE (IF IsRegistered(n, reg_log[i].name) /\ EntryCallOf(n, reg_log[i].name) = i
          THEN Adds(LastRegistered(n, reg_log[i].name), html, exclude)
          ELSE <<>>) \o InEntryOrder(n, i + 1, html, exclude)

NameOfId(id) == (CHOOSE a \in AnalyzerObjects : a.id = id).name

\* analyze_all did not raise and invoked no analyzer named in exclude
NeverRaisesNorInvokesExcluded ==
    /\ ~analysis.raised
    /\ \A k \in 1..Len(analysis.invoked) :
          NameOfId(analysis.invoked[k]) \notin Range(analysis.exclude)

\* C13: analyze_all never raises; its result is the concatenation, in
\* registration order, of the issue lists of the registered analyzers that
\* are not excluded and did not throw; excluded analyzers are never invoked.
C13_AnalyzeAllInRegistrationOrder ==
    analysis.called =>
        /\ NeverRaisesNorInvokesExcluded
        /\ analysis.issues =
             InRegistrationOrder(analysis.at, 1, analysis.html, analysis.exclude)

\* C13, amended: the order of the concatenation is the order in which the
\* names entered the registry; an analyzer registered under a name that is
\* already registered takes the place of the one it replaces.
C13_AnalyzeAllInEntryOrder ==
    analysis.called =>
        /\ NeverRaisesNorInvokesExcluded
        /\ analysis.issues =
             InEntryOrder(analysis.at, 1, analysis.html, analysis.exclude)

\* C13 witness: with "alt" replaced after "lang" was registered, a page was
\* analysed on which both analyzers report, and a malformed page on which
\* every registered analyzer throws; one call excluded "lang".
C13_Witness ==
    /\ analysis.called
    /\ analysis.html = "page"
    /\ analysis.exclude = <<>>
    /\ analysis.issues = << "LINK_IMG_MISSING_ALT", "LINK_NO_TEXT", "MISSING_LANG" >>
    /\ analysis.invoked = <<2, 3>>

C13_WitnessAllThrow ==
    /\ analysis.called
    /\ analysis.html = "malformed"
    /\ analysis.invoked = <<1, 3>>
    /\ analysis.issues = <<>>

\* C14: the registry holds at most one analyzer per name, get(name) is the
\* analyzer most recently registered under name (nothing if it was
\* unregistered afterwards or never registered), and a register call changes
\* the entry of no other name.
C14_OnePerNameLastWins ==
    /\ [](/\ \A i, j \in 1..Len(analyzers) :
                analyzers[i].name = analyzers[j].name => i = j
          /\ \A name \in AnalyzerNames :
                get(name) = LastRegistered(Len(reg_log), name))
    /\ [][\A a \in AnalyzerObjects :
            (reg_log' = Append(reg_log, [op |-> "register", name |-> a.name,
                                         analyzer |-> a]))
               => \A name \in AnalyzerNames \ {a.name} : get(name)' = get(name)]_vars

\* C14 witness: analyzer 2 replaced analyzer 1 under "alt" while "lang" was
\* registered, and "lang" was unregistered afterwards.
C14_Witness ==
    /\ Len(reg_log) = 4
    /\ reg_log[1].analyzer = [id |-> 1, name |-> "alt"]
    /\ reg_log[2].analyzer = [id |-> 3, name |-> "lang"]
    /\ reg_log[3].analyzer = [id |-> 2, name |-> "alt"]
    /\ reg_log[4] = [op |-> "unregister", name |-> "lang", analyzer |-> None]
    /\ get("alt") = [id |-> 2, name |-> "alt"]
    /\ get("lang") = None

(***************************************************************************)
(* Properties of the robots group selection (RobotsSpec).                  *)
(***************************************************************************)
\* the least of a set of indices, 0 if it is empty
First(hits) == IF hits = {} THEN 0 ELSE CHOOSE i \in hits : \A j \in hits : i <= j

ListsEqual(g, agent) ==
    \E gu \in Range(g.user_agents) : lower(gu) = lower(agent)

ListsSubstring(g, agent) ==
    \E gu \in Range(g.user_agents) :
        gu # Star /\ IsSubstring(lower(gu), lower(agent))

ListsEqualNonEmpty(g, agent) ==
    \E gu \in Range(g.user_agents) \ {<<>>} : lower(gu) = lower(agent)

ListsSubstringNonEmpty(g, agent) ==
    \E gu \in Range(g.user_agents) \ {<<>>, Star} :
        IsSubstring(lower(gu), lower(agent))

ListsStar(g) == Star \in Range(g.user_agents)

\* what the chosen group gives; index 0 is no group
Gives(gs, i) ==
    IF i = 0 THEN [disallows |-> <<>>, crawl_delay |-> 0]
    ELSE [disallows |-> gs[i].disallow,
          crawl_delay |-> IF gs[i].crawl_delay = NoDelay THEN 0
                          ELSE gs[i].crawl_delay]

WithEqual == {i \in 1..Len(groups) : ListsEqual(groups[i], ua)}

WithSubstring == {i \in 1..Len(groups) : ListsSubstring(groups[i], ua)}

WithEqualNonEmpty == {i \in 1..Len(groups) : ListsEqualNonEmpty(groups[i], ua)}

WithSubstringNonEmpty ==
    {i \in 1..Len(groups) : ListsSubstringNonEmpty(groups[i], ua)}

WithStar == {i \in 1..Len(groups) : ListsStar(groups[i])}

\* C15: the chosen group is the first group listing an agent equal to the
\* crawl agent ignoring case; else the first listing a non-* agent that is a
\* case-insensitive substring of the crawl agent; else the first listing *;
\* else none, giving no disallows and zero crawl-delay.
C15_GroupSelection ==
    (robots_pc = "returned" /\ robots_text.lines # <<>>) =>
        robots_result =
            Gives(groups, IF WithEqual # {} THEN First(WithEqual)
                          ELSE IF WithSubstring # {} THEN First(WithSubstring)
                          ELSE First(WithStar))

\* C15, amended: as C15, with only non-empty listed agents counting for the
\* equal and the substring match (a "User-agent:" line without a value
\* matches nothing).
C15_GroupSelectionNonEmptyAgents ==
    (robots_pc = "returned" /\ robots_text.lines # <<>>) =>
        robots_result =
            Gives(groups, IF WithEqualNonEmpty # {} THEN First(WithEqualNonEmpty)
                          ELSE IF WithSubstringNonEmpty # {}
                          THEN First(WithSubstringNonEmpty)
                          ELSE First(WithStar))

\* C15 witness: the file lists a substring-matching agent, then *, then the
\* crawl agent itself in another case; the third group's rule is returned.
C15_Witness ==
    /\ robots_pc = "returned"
    /\ ua = << "B", "o" >>
    /\ Len(groups) = 3
    /\ groups[1].user_agents = << << "B" >> >>
    /\ groups[2].user_agents = << Star >>
    /\ groups[3].user_agents = << << "b", "O" >> >>
    /\ robots_result.disallows = << << "/", "b" >> >>

(***************************************************************************)
(* Properties of one page fetch (FetchSpec).                               *)
(***************************************************************************)
\* at most 3 attempts, each further one after a transient network exception,
\* and _fetch_text returns text or None without raising
AttemptsAndResult ==
    /\ attempt_number <= 3
    /\ Len(outcomes) <= 3
    /\ \A i \in 1..(attempt_number - 1) :
          i <= Len(outcomes)
            /\ outcomes[i] \in {"TimeoutException", "ConnectError", "ReadError"}
    /\ fetch_pc # "raised"
    /\ fetch_pc = "returned" => fetch_result \in {"text", "None"}

\* C16: at most 3 HTTP attempts; a further attempt only after a transient
\* network exception; a 4xx response other than 429 ends the fetch after
\* exactly one attempt with result None; _fetch_text returns text or None and
\* never raises.
C16_RetryPolicy ==
    /\ AttemptsAndResult
    /\ \A i \in 1..Len(outcomes) :
          outcomes[i] = "404" =>
              /\ fetch_pc = "returned"
              /\ fetch_result = "None"
              /\ Len(outcomes) = 1

\* C16, amended: a 4xx response other than 429 ends the fetch at the attempt
\* it answers, with result None and no further attempt; that is after exactly
\* one attempt when it answers the first one.
C16_RetryPolicyClientErrorIsFinal ==
    /\ AttemptsAndResult
    /\ \A i \in 1..Len(outcomes) :
          outcomes[i] = "404" =>
              /\ fetch_pc = "returned"
              /\ fetch_result = "None"
              /\ Len(outcomes) = i
              /\ attempt_number = i

\* C16 witness: the first attempt timed out, the second was answered 404 and
\* the fetch returned None after two attempts.
C16_Witness ==
    /\ outcomes = << "TimeoutException", "404" >>
    /\ attempt_number = 2
    /\ fetch_pc = "returned"
    /\ fetch_result = "None"

(***************************************************************************)
(* Properties of the severity functions (SeveritySpec).                    *)
(***************************************************************************)
AddedKeys == {"severity", "wcag", "wcag_name", "impact"}

\* the four fields as the lookup table gives them for the code of d
LookedUp(d) ==
    LET code == IF "code" \in DOMAIN d THEN d["code"] ELSE ""
        known == code \in DOMAIN SEVERITY_MAP
    IN  [k \in AddedKeys |->
            CASE k = "severity" -> IF known THEN SEVERITY_MAP[code].level ELSE "minor"
              [] k = "wcag" -> IF known THEN SEVERITY_MAP[code].wcag ELSE "None"
              [] k = "wcag_name" -> IF known THEN SEVERITY_MAP[code].wcag_name
                                    ELSE "None"
              [] OTHER -> IF known THEN SEVERITY_MAP[code].impact ELSE "None"]

\* C17: enrich_issue leaves its argument unchanged; the result has every key
\* of the input with the same value, plus severity, wcag, wcag_name and impact
\* from the lookup table for the issue's code.
C17_EnrichPreservesAllKeys ==
    sev_pc = "enriched" =>
        /\ issue = given
        /\ \A k \in DOMAIN given : k \in DOMAIN enriched /\ enriched[k] = given[k]
        /\ \A k \in AddedKeys : k \in DOMAIN enriched /\ enriched[k] = LookedUp(given)[k]

\* C17, amended: the result has every key of the input other than severity,
\* wcag, wcag_name and impact with the same value, and these four from the
\* lookup table, in place of any value the input had under them.
C17_EnrichPreservesOtherKeys ==
    sev_pc = "enriched" =>
        /\ issue = given
        /\ DOMAIN enriched = DOMAIN given \cup AddedKeys
        /\ \A k \in DOMAIN given \ AddedKeys : enriched[k] = given[k]
        /\ \A k \in AddedKeys : enriched[k] = LookedUp(given)[k]

\* C17 witness: an issue of a known critical code that came with a message
\* and with its own severity "minor" was enriched.
C17_Witness ==
    /\ sev_pc = "enriched"
    /\ given = [code |-> "IMG_MISSING_ALT", message |-> "Test", severity |-> "minor"]
    /\ enriched.severity = "critical"
    /\ enriched.message = "Test"

\* the rank of an issue: critical 0, major 1, anything else or nothing 2
Rank(x) ==
    IF "severity" \notin DOMAIN x THEN 2
    ELSE CASE x["severity"] = "critical" -> 0
           [] x["severity"] = "major" -> 1
           [] OTHER -> 2

\* C18: sort_by_severity returns a permutation of its input with every
\* critical issue before every major one and every major before every minor
\* one (missing or unknown severity ranked as minor), issues of equal rank in
\* their input order; the input list is not modified.
C18_StableSortBySeverity ==
    sev_pc = "sorted" =>
        /\ issues = given
        /\ Len(sorted_issues) = Len(given)
        /\ \E perm \in [1..Len(given) -> 1..Len(given)] :
              /\ \A i, j \in 1..Len(given) : perm[i] = perm[j] => i = j
              /\ \A i \in 1..Len(given) : sorted_issues[i] = given[perm[i]]
              /\ \A i, j \in 1..Len(given) :
                    i < j =>
                       \/ Rank(given[perm[i]]) < Rank(given[perm[j]])
                       \/ Rank(given[perm[i]]) = Rank(given[perm[j]])
                            /\ perm[i] < perm[j]

\* C18 witness: a list of a minor, an issue of unknown severity, and a
\* critical issue was sorted: the critical one came first and the other two
\* kept their order.
C18_Witness ==
    /\ sev_pc = "sorted"
    /\ given = << [message |-> "first", severity |-> "minor"],
                  [message |-> "second", severity |-> "blocker"],
                  [message |-> "third", severity |-> "critical"] >>
    /\ sorted_issues = << given[3], given[1], given[2] >>

(***************************************************************************)
(* Properties of the crawl session's dedup (Spec).                         *)
(***************************************************************************)
\* C19: when a worker has decided to fetch a URL (it is past the dedup and
\* robots checks, at the rate limiter or at the fetch), the URL is in seen.
C19_SeenBeforeFetch ==
    \A w \in Workers : pc[w] \in {"acquire", "fetch"} => cur[w] \in seen

\* C20: the frontier queue never holds the same URL twice at the same time.
C20_NoDuplicateInQueue ==
    \A i, j \in 1..Len(to_visit) : to_visit[i] = to_visit[j] => i = j

(***************************************************************************)
(* Properties of the robots.txt parse (RobotsSpec).                        *)
(***************************************************************************)
\* C21: once robots.txt is parsed, two consecutive User-agent lines with no
\* directive between them are agents of one and the same rule group, listed
\* there one after the other.
C21_ConsecutiveAgentsShareGroup ==
    (robots_pc = "returned" /\ robots_text.lines # <<>>) =>
        \A i \in 1..(Len(robots_text.lines) - 1) :
            LET one == robots_text.lines[i]
                two == robots_text.lines[i + 1]
            IN  (one.field = "ua" /\ two.field = "ua") =>
                   \E k \in 1..Len(groups) :
                      \E j \in 1..(Len(groups[k].user_agents) - 1) :
                         /\ groups[k].user_agents[j] = one.value
                         /\ groups[k].user_agents[j + 1] = two.value

(***************************************************************************)
(* Properties of the worker loop (Spec).                                   *)
(***************************************************************************)
\* C22: when the effective delay is positive, a worker whose fetch has
\* returned, with the page or with a failure, is next at the politeness sleep
\* (or has ended with an exception): it reaches neither the loop test nor its
\* next dequeue without sleeping first.
C22_SleepAfterEveryFetch ==
    [][\A w \in Workers :
          (delayed /\ pc[w] = "fetch" /\ pc'[w] # "fetch")
             => pc'[w] \in {"sleep", "raised"}]_vars

\* every URL the session has handled: queued, in a worker's hands, passed to
\* the limiter, fetched, in seen or a key of the results
Handled ==
    queued \cup seen \cup acquired \cup DOMAIN issues_map \cup DOMAIN fetches
        \cup {cur[w] : w \in {x \in DOMAIN cur : cur[x] # NoUrl}}

\* C23: no URL with a fragment is ever enqueued, fetched, added to seen or
\* made a results key, whether it came from the start URL, the sitemap or a
\* link; so no two handled URLs differ only in their fragment.
C23_NoFragmentHandled ==
    /\ \A u \in Handled : u.frag = ""
    /\ \A u, v \in Handled : StripFragment(u) = StripFragment(v) => u = v

\* C24: the progress callback has been invoked once for every completion of
\* a page, that is once for each time a URL was added to seen and given its
\* results entry: after a successful analysis, after a failed fetch and
\* after a robots block alike.
C24_ProgressForEveryPage ==
    \A u \in seen : Count(on_progress, u) = Count(writes, u)

\* C25: when the session has ended and every worker has retired, the page
\* budget is used up or the frontier queue is empty.
C25_NoUrlLeftWithBudget ==
    (session \in {"returned", "raised"}
        /\ \A w \in Workers : pc[w] \in {"done", "raised"})
       => (Cardinality(seen) >= max_pages \/ to_visit = <<>>)

\* the same for the sessions that return, where every worker left its loop
\* at the loop test or at a dequeue timeout
C25_ReturnedNoUrlLeftWithBudget ==
    session = "returned" => (Cardinality(seen) >= max_pages \/ to_visit = <<>>)

(***************************************************************************)
(* Properties of the severity table (SeveritySpec).                        *)
(***************************************************************************)
\* C26: enriching an issue whose code one of the twelve built-in analyzers
\* can emit gives it a wcag criterion and an impact from the lookup table,
\* never the null of the fallback for unknown codes.
C26_BuiltinCodesAreMapped ==
    (sev_pc = "enriched" /\ "code" \in DOMAIN given) =>
        (given["code"] \in BuiltinCodes =>
            /\ enriched["wcag"] # "None"
            /\ enriched["impact"] # "None")

(***************************************************************************)
(* Properties of the aria analyzer (AriaSpec).                             *)
(***************************************************************************)
\* C27: an element that carries the disabled attribute is never reported
\* focusable, whatever its tag name, href, tabindex and contenteditable.
C27_DisabledNeverFocusable ==
    (aria_pc = "tested" /\ element.disabled # "None") => ~focusable

\* the number of issues of a list that have the given code, message and
\* context
IssuesOf(list_, code, message, context) ==
    Cardinality({k \in 1..Len(list_) :
                    /\ list_[k].code = code
                    /\ list_[k].message = message
                    /\ list_[k].context = context})

HiddenIssues(i) ==
    IssuesOf(aria_issues, "ARIA_HIDDEN_FOCUSABLE", "is focusable", i)
      + IssuesOf(aria_issues, "ARIA_HIDDEN_FOCUSABLE", "contains focusable content", i)

C29_ResultKeysAreSeen == DOMAIN issues_map = seen

\* C29 witness: a session returned after it recorded a robots-blocked page,
\* a page whose fetch failed and a page that was analysed.
C29_Witness ==
    /\ session = "returned"
    /\ fetch_failed
    /\ \E u \in seen : Disallowed(u)
    /\ \E u \in seen : ~Disallowed(u) /\ Count(fetches, u) > 0 /\ issues_map[u] = <<>>
    /\ \E u \in seen : issues_map[u] # <<>>

C30_FailedFetchRecordedEmpty ==
    [][\A w \in Workers :
          (pc[w] = "fetch" /\ pc'[w] # "fetch" /\ on_progress' = on_progress)
             => /\ cur[w] \in seen'
                /\ issues_map'[cur[w]] = <<>>]_vars

====
